---- MODULE Spec2Model ----
(***************************************************************************)
(* Escrow negotiation agent: the durable polling engine                    *)
(* (TokenPollingService), the escrow orchestrator and the acceptDeal step  *)
(* of the negotiation state machine.                                       *)
(*                                                                         *)
(* The polling engine is modelled with the JavaScript object identities    *)
(* that its code relies on: this.state.tasks is an array of references to  *)
(* task objects, a poll pass iterates the array object it was given at the *)
(* start of the pass and keeps references to task objects across its       *)
(* awaits, while other code paths replace the array or the objects.        *)
(***************************************************************************)
EXTENDS Integers, Sequences, FiniteSets, TLC

\* ------------------------------------------------------------------ bounds
\* escrows that setupEscrow initializes in one behaviour
NumEscrows == 2
\* poll passes (pollTasks invocations) that may be in flight at once
MaxPasses == 2
\* external events in one behaviour: timer ticks, registrations, operator
\* edits, cancellation requests, restarts
MaxOps == 5

Escrows == 1..NumEscrows
Tweets == 1..NumEscrows
Passes == 1..MaxPasses
Slots == 1..(MaxPasses + 2)
Objs == Escrows \X Slots

VARIABLES
    heap,                   \* task objects: Objs -> task record ("free" = no object)
    mem,                    \* this.state.tasks: sequence of object references
    disk,                   \* polling-state.json: sequence of task records
    pollingInterval,        \* this.pollingInterval # null
    fileWatcher,            \* this.fileWatcher: "null", "active" or "closed"
    isProcessingFileChange, \* this.isProcessingFileChange (handleFileChange in its 100ms wait)
    negotiationHandler,     \* this.negotiationHandler is set
    pass,                   \* the pollTasks invocations in flight
    chain,                  \* the escrow program's account per escrow
    nextEscrow,             \* next escrow address setupEscrow derives
    ops,                    \* external events so far
    log,                    \* per escrow: what the engine did on chain / called back
    verify,                 \* a verifyAndCompleteEscrow call: its inputs and progress
    accept,                 \* the acceptDeal attempts for one deal
    store,                  \* the state file, its backup and a safeWriteState in progress
    call,                   \* one call of a service function: its inputs and progress
    neg                     \* one counterparty's persisted negotiation state and the last round

pollVars == <<heap, mem, disk, pollingInterval, fileWatcher,
              isProcessingFileChange, negotiationHandler, pass, chain,
              nextEscrow, ops, log>>

auxVars == <<verify, accept, store, call, neg>>

vars == <<heap, mem, disk, pollingInterval, fileWatcher, isProcessingFileChange,
          negotiationHandler, pass, chain, nextEscrow, ops, log, verify, accept, store,
          call, neg>>

\* ------------------------------------------------------------------ helpers
Min(S) == CHOOSE x \in S : \A y \in S : x <= y

Range(s) == {s[i] : i \in 1..Len(s)}

Terminal == {"completed", "failed", "cancelled"}
Active == {"pending", "request_cancel"}

NoObj == [escrow |-> 0, status |-> "free", error |-> FALSE, tweet |-> 0]
NoRef == <<0, 0>>

FreeSlot(h, e) == Min({s \in Slots : h[<<e, s>>].status = "free"})

\* keys of a Map built from a sequence of escrows: first-insertion order
DedupeKeys(es) ==
    LET firsts == {i \in 1..Len(es) : \A j \in 1..(i - 1) : es[j] # es[i]}
        F[k \in 0..Len(es)] ==
            IF k = 0 THEN <<>>
            ELSE IF k \in firsts THEN Append(F[k - 1], es[k]) ELSE F[k - 1]
    IN F[Len(es)]

\* last index of escrow e in a sequence of escrows (Map.set overwrites the value)
LastIdx(es, e) == CHOOSE i \in 1..Len(es) : es[i] = e /\ \A j \in (i + 1)..Len(es) : es[j] # e

\* JSON.stringify of this.state: the task records, by value
Snapshot(h, m) == [i \in 1..Len(m) |-> h[m[i]]]

\* a pollTasks invocation: loop is the array it iterates (same: that array is
\* still this.state.tasks), idx the position of the task it awaits on, file the
\* file state it read; found / chk / adopted / tried record what the pass saw:
\* the status of the task at idx when the loop reached it, what its
\* checkTokenBalance returned, the escrows that were pending in memory and
\* request_cancel on disk at the start, the escrows it submitted a cancel for
IdlePass == [pc |-> "idle", loop |-> <<>>, same |-> FALSE, idx |-> 0,
             remaining |-> <<>>, file |-> <<>>,
             found |-> "none", chk |-> "none", adopted |-> {}, tried |-> {}]

\* objects no array or pass refers to any more are collected
GC(h, m, P) ==
    LET live == Range(m) \cup UNION {Range(P[p].loop) \cup Range(P[p].remaining) : p \in Passes}
    IN [o \in Objs |-> IF o \in live THEN h[o] ELSE NoObj]

\* an assignment to this.state.tasks: no pass iterates the live array any more
Detach(P) == [p \in Passes |-> [P[p] EXCEPT !.same = FALSE]]

\* per escrow: exchange submissions, exchanges that succeeded, those of them that
\* succeeded while a handler was registered, cancel submissions, callback calls
NoLog == [exch |-> 0, exchOk |-> 0, exchOkH |-> 0, cancel |-> 0, notified |-> 0]

\* ------------------------------------------------------------------ engine
NoVerify == [pc |-> "none"]
NoAccept == [pc |-> "none"]
NoStore == [pc |-> "none"]
NoCall == [pc |-> "none"]
NoNeg == [pc |-> "none"]

PollInit ==
    /\ heap = [o \in Objs |-> NoObj]
    /\ mem = <<>>
    /\ disk = <<>>
    /\ pollingInterval = FALSE
    /\ fileWatcher = "active"
    /\ isProcessingFileChange = FALSE
    /\ negotiationHandler = FALSE
    /\ pass = [p \in Passes |-> IdlePass]
    /\ chain = [e \in Escrows |-> "none"]
    /\ nextEscrow = 1
    /\ ops = 0
    /\ log = [e \in Escrows |-> NoLog]

Init ==
    /\ PollInit
    /\ call = NoCall
    /\ verify = NoVerify
    /\ neg = NoNeg
    /\ accept = NoAccept
    /\ store = NoStore

\* saveState: the watcher is closed but this.fileWatcher stays set, so the
\* startFileWatcher that follows the write returns at once
WatcherAfterSave(w) == IF w = "null" THEN "active" ELSE "closed"

\* pollTasks, start of pass: a key on both sides with different statuses
MergeStatus(fileStatus, memStatus) == fileStatus

\* a dispatch that ignores the result of the check
AlwaysExecute(thresholdMet) == TRUE

\* pollTasks: executeActions is called iff checkTokenBalance returned true
ShouldExecute(thresholdMet) == thresholdMet

\* an engine that never calls the handler
NeverNotify(handlerSet, tweet) == FALSE

\* executeActions: the callback is awaited iff a handler is set and the task has a tweet id
ShouldNotify(handlerSet, tweet) == handlerSet /\ tweet # 0

\* executeActions, catch block: whatever threw inside the try
CatchStatus(status) == "failed"

\* a catch block that records the error and leaves the status alone
KeepStatus(status) == status

\* pollTasks, catch around cancelEscrow
CancelCatchStatus(status) == "failed"

\* the engine's mutable state, as one value
Cur == [h |-> heap, m |-> mem, d |-> disk, w |-> fileWatcher, t |-> pollingInterval,
        P |-> pass, lg |-> log]

Becomes(s) ==
    /\ heap' = s.h
    /\ mem' = s.m
    /\ disk' = s.d
    /\ fileWatcher' = s.w
    /\ pollingInterval' = s.t
    /\ pass' = s.P
    /\ log' = s.lg

\* pollTasks, end of pass: terminal tasks of the file state read at the start of
\* the pass, then terminal tasks of this.state.tasks, then remainingTasks; made
\* unique by escrow (first position, last value); saved; the timer is stopped
\* when remainingTasks is empty
PassEnd(p, s) ==
    LET h == s.h
        f == s.P[p].file
        fRec(i) == IF f[i].ref # NoRef THEN h[f[i].ref] ELSE f[i].rec
        fIdx == SelectSeq([i \in 1..Len(f) |-> i], LAMBDA i : fRec(i).status \in Terminal)
        fCands == [k \in 1..Len(fIdx) |->
                     [e |-> f[fIdx[k]].rec.escrow, ref |-> f[fIdx[k]].ref, rec |-> fRec(fIdx[k])]]
        mTerm == SelectSeq(s.m, LAMBDA o : h[o].status \in Terminal)
        mCands == [k \in 1..Len(mTerm) |-> [e |-> mTerm[k][1], ref |-> mTerm[k], rec |-> h[mTerm[k]]]]
        rem == s.P[p].remaining
        rCands == [k \in 1..Len(rem) |-> [e |-> rem[k][1], ref |-> rem[k], rec |-> h[rem[k]]]]
        cands == fCands \o mCands \o rCands
        es == [i \in 1..Len(cands) |-> cands[i].e]
        keys == DedupeKeys(es)
        win(e) == cands[LastIdx(es, e)]
        obj(e) == IF win(e).ref # NoRef THEN win(e).ref ELSE <<e, FreeSlot(h, e)>>
        h2 == [o \in Objs |->
                 IF o[1] \in Range(keys) /\ win(o[1]).ref = NoRef /\ o = obj(o[1])
                 THEN win(o[1]).rec ELSE h[o]]
        m2 == [i \in 1..Len(keys) |-> obj(keys[i])]
        P2 == [Detach(s.P) EXCEPT ![p] = IdlePass]
    IN [h |-> GC(h2, m2, P2), m |-> m2, d |-> Snapshot(h2, m2), w |-> WatcherAfterSave(s.w),
        t |-> IF rem = <<>> THEN FALSE ELSE s.t, P |-> P2, lg |-> s.lg]

\* pollTasks, the for-loop from position i of the iterated array up to the next
\* await (cancelEscrow of a request_cancel task, checkTokenBalance of a pending
\* one) or, past the last task, through the end of the pass
Continue(p, s, i) ==
    LET lp == s.P[p].loop
        cand == {j \in i..Len(lp) : s.h[lp[j]].status \in Active}
    IN IF cand # {}
       THEN LET j == Min(cand)
                o == lp[j]
                isRC == s.h[o].status = "request_cancel"
                P2 == [s.P EXCEPT ![p].pc = IF isRC THEN "cancel" ELSE "check", ![p].idx = j,
                                  ![p].found = s.h[o].status, ![p].chk = "none",
                                  ![p].tried = IF isRC THEN @ \cup {o[1]} ELSE @]
            IN [s EXCEPT !.P = P2, !.h = GC(s.h, s.m, P2),
                         !.lg = IF isRC THEN [s.lg EXCEPT ![o[1]].cancel = @ + 1] ELSE s.lg]
       ELSE PassEnd(p, s)

\* pollTasks after the check / exchange of the task at idx: a task still
\* pending is kept in remainingTasks; then the loop goes on
AfterTask(p, s) ==
    LET o == s.P[p].loop[s.P[p].idx]
        s2 == IF s.h[o].status = "pending"
              THEN [s EXCEPT !.P[p].remaining = Append(@, o)]
              ELSE s
    IN Continue(p, s2, s.P[p].idx + 1)

\* pollTasks, start of pass: the file state is read and merged with memory by
\* escrow (file keys first; on both sides with different statuses a new object
\* with the merged status; otherwise the memory object)
MergeStates(p, s) ==
    LET fileEs == [i \in 1..Len(s.d) |-> s.d[i].escrow]
        memEs == [i \in 1..Len(s.m) |-> s.m[i][1]]
        keys == DedupeKeys(fileEs \o memEs)
        inFile(e) == \E i \in 1..Len(fileEs) : fileEs[i] = e
        inMem(e) == \E i \in 1..Len(memEs) : memEs[i] = e
        fileTask(e) == s.d[LastIdx(fileEs, e)]
        memObj(e) == s.m[LastIdx(memEs, e)]
        needsNew(e) == inFile(e) /\ (~inMem(e) \/ fileTask(e).status # s.h[memObj(e)].status)
        newObj(e) == <<e, FreeSlot(s.h, e)>>
        newRec(e) == IF inMem(e)
                     THEN [s.h[memObj(e)] EXCEPT
                             !.status = MergeStatus(fileTask(e).status, s.h[memObj(e)].status)]
                     ELSE fileTask(e)
        h1 == [o \in Objs |->
                 IF o[1] \in Range(keys) /\ needsNew(o[1]) /\ o = newObj(o[1])
                 THEN newRec(o[1]) ELSE s.h[o]]
        m1 == [i \in 1..Len(keys) |-> IF needsNew(keys[i]) THEN newObj(keys[i]) ELSE memObj(keys[i])]
        fileEntries == [i \in 1..Len(s.d) |->
                          [rec |-> s.d[i],
                           ref |-> IF ~inMem(s.d[i].escrow) /\ i = LastIdx(fileEs, s.d[i].escrow)
                                   THEN newObj(s.d[i].escrow) ELSE NoRef]]
        P1 == [Detach(s.P) EXCEPT ![p] =
                  [pc |-> "loop", loop |-> m1, same |-> TRUE, idx |-> 0,
                   remaining |-> <<>>, file |-> fileEntries,
                   found |-> "none", chk |-> "none", tried |-> {},
                   adopted |-> {e \in Range(keys) : /\ inFile(e) /\ inMem(e)
                                                    /\ s.h[memObj(e)].status = "pending"
                                                    /\ fileTask(e).status = "request_cancel"}]]
    IN [s EXCEPT !.h = h1, !.m = m1, !.P = P1]

\* setInterval callback: pollTasks runs up to its first await
TimerTick(p) ==
    /\ UNCHANGED auxVars
    /\ ops < MaxOps
    /\ pollingInterval
    /\ pass[p].pc = "idle"
    /\ \A q \in 1..(p - 1) : pass[q].pc # "idle"
    /\ ops' = ops + 1
    /\ \E s1 \in {MergeStates(p, Cur)} : \E s \in {Continue(p, s1, 1)} : Becomes(s)
    /\ UNCHANGED <<isProcessingFileChange, negotiationHandler, chain, nextEscrow>>

\* checkTokenBalance returns: r is what the RPC reads gave ("met": balance at or
\* above the threshold, "unmet": below or no token account, "throw": a read failed)
CheckReturn(p, r) ==
    /\ UNCHANGED auxVars
    /\ pass[p].pc = "check"
    /\ LET o == pass[p].loop[pass[p].idx]
           h1 == IF r = "throw" THEN [heap EXCEPT ![o].error = TRUE] ELSE heap
       IN IF ShouldExecute(r = "met")
          THEN /\ pass' = [pass EXCEPT ![p].pc = "exchange", ![p].chk = r]
               /\ log' = [log EXCEPT ![o[1]].exch = @ + 1]
               /\ heap' = h1
               /\ UNCHANGED <<mem, disk, fileWatcher, pollingInterval>>
          ELSE \E s \in {AfterTask(p, [Cur EXCEPT !.h = h1, !.P[p].chk = r])} : Becomes(s)
    /\ UNCHANGED <<isProcessingFileChange, negotiationHandler, chain, nextEscrow, ops>>

\* executeExchange returns (ok) or throws; the escrow program exchanges an open escrow once
ExchangeReturn(p, ok) ==
    /\ UNCHANGED auxVars
    /\ pass[p].pc = "exchange"
    /\ LET o == pass[p].loop[pass[p].idx]
           e == o[1]
       IN /\ ok => chain[e] = "open"
          /\ chain' = IF ok THEN [chain EXCEPT ![e] = "exchanged"] ELSE chain
          /\ IF ok
             THEN LET h1 == [heap EXCEPT ![o].status = "completed"]
                      lg1 == [log EXCEPT ![e].exchOk = @ + 1,
                                         ![e].exchOkH = IF negotiationHandler THEN @ + 1 ELSE @]
                  IN IF ShouldNotify(negotiationHandler, heap[o].tweet)
                     THEN /\ pass' = [pass EXCEPT ![p].pc = "notify"]
                          /\ log' = [lg1 EXCEPT ![e].notified = @ + 1]
                          /\ heap' = h1
                          /\ UNCHANGED <<mem, disk, fileWatcher, pollingInterval>>
                     ELSE \E s \in {AfterTask(p, [Cur EXCEPT !.h = h1, !.lg = lg1])} : Becomes(s)
             ELSE LET h1 == [heap EXCEPT ![o].status = CatchStatus(heap[o].status), ![o].error = TRUE]
                  IN \E s \in {AfterTask(p, [Cur EXCEPT !.h = h1])} : Becomes(s)
    /\ UNCHANGED <<isProcessingFileChange, negotiationHandler, nextEscrow, ops>>

\* notifyEscrowComplete returns (ok) or throws into the catch block of executeActions
NotifyReturn(p, ok) ==
    /\ UNCHANGED auxVars
    /\ pass[p].pc = "notify"
    /\ LET o == pass[p].loop[pass[p].idx]
           h1 == IF ok THEN heap
                 ELSE [heap EXCEPT ![o].status = CatchStatus(heap[o].status), ![o].error = TRUE]
       IN \E s \in {AfterTask(p, [Cur EXCEPT !.h = h1])} : Becomes(s)
    /\ UNCHANGED <<isProcessingFileChange, negotiationHandler, chain, nextEscrow, ops>>

\* cancelEscrow returns (ok: executeCancel confirmed, the task list is filtered
\* and saved, then the task is set to cancelled) or throws
CancelReturn(p, ok) ==
    /\ UNCHANGED auxVars
    /\ pass[p].pc = "cancel"
    /\ LET o == pass[p].loop[pass[p].idx]
           e == o[1]
       IN /\ ok => chain[e] = "open"
          /\ chain' = IF ok THEN [chain EXCEPT ![e] = "cancelled"] ELSE chain
          /\ IF ok
             THEN LET m1 == SelectSeq(mem, LAMBDA x : x[1] # e \/ heap[x].status # "pending")
                      d1 == Snapshot(heap, m1)
                      h1 == [heap EXCEPT ![o].status = "cancelled"]
                  IN \E s \in {Continue(p, [Cur EXCEPT !.h = h1, !.m = m1, !.d = d1,
                                                       !.w = WatcherAfterSave(fileWatcher),
                                                       !.P = Detach(pass)],
                                          pass[p].idx + 1)} : Becomes(s)
             ELSE LET h1 == [heap EXCEPT ![o].status = CancelCatchStatus(heap[o].status),
                                         ![o].error = TRUE]
                  IN \E s \in {Continue(p, [Cur EXCEPT !.h = h1], pass[p].idx + 1)} : Becomes(s)
    /\ UNCHANGED <<isProcessingFileChange, negotiationHandler, nextEscrow, ops>>

\* setupEscrow has initialized escrow nextEscrow on chain; addPollingTask(tweet tw)
AddPollingTask(tw) ==
    /\ UNCHANGED auxVars
    /\ ops < MaxOps
    /\ nextEscrow <= NumEscrows
    /\ ops' = ops + 1
    /\ nextEscrow' = nextEscrow + 1
    /\ chain' = [chain EXCEPT ![nextEscrow] = "open"]
    /\ IF \E i \in 1..Len(mem) : heap[mem[i]].tweet = tw
       THEN UNCHANGED <<heap, mem, disk, fileWatcher, pollingInterval, pass>>
       ELSE LET o == <<nextEscrow, FreeSlot(heap, nextEscrow)>>
                h1 == [heap EXCEPT ![o] = [escrow |-> nextEscrow, status |-> "pending",
                                           error |-> FALSE, tweet |-> tw]]
                m1 == Append(mem, o)
            IN /\ heap' = h1
               /\ mem' = m1
               /\ pass' = [p \in Passes |->
                             IF pass[p].same THEN [pass[p] EXCEPT !.loop = Append(@, o)]
                             ELSE pass[p]]
               /\ disk' = Snapshot(h1, m1)
               /\ fileWatcher' = WatcherAfterSave(fileWatcher)
               /\ pollingInterval' = TRUE
    /\ UNCHANGED <<isProcessingFileChange, negotiationHandler, log>>

\* requestCancellation(e): the first pending or failed task of that escrow
RequestCancellation(e) ==
    /\ UNCHANGED auxVars
    /\ ops < MaxOps
    /\ \E i \in 1..Len(mem) : mem[i][1] = e /\ heap[mem[i]].status \in {"pending", "failed"}
    /\ ops' = ops + 1
    /\ LET i == Min({k \in 1..Len(mem) : mem[k][1] = e /\ heap[mem[k]].status \in {"pending", "failed"}})
           h1 == [heap EXCEPT ![mem[i]].status = "request_cancel"]
       IN /\ heap' = h1
          /\ disk' = Snapshot(h1, mem)
          /\ fileWatcher' = WatcherAfterSave(fileWatcher)
    /\ UNCHANGED <<mem, pollingInterval, isProcessingFileChange, negotiationHandler,
                   pass, chain, nextEscrow, log>>

\* the operator edits polling-state.json: task e is set to request_cancel; a
\* live watcher calls handleFileChange, which returns at once when one is running
OperatorEdit(e) ==
    /\ UNCHANGED auxVars
    /\ ops < MaxOps
    /\ \E i \in 1..Len(disk) : disk[i].escrow = e /\ disk[i].status # "request_cancel"
    /\ ops' = ops + 1
    /\ disk' = [i \in 1..Len(disk) |->
                  IF disk[i].escrow = e THEN [disk[i] EXCEPT !.status = "request_cancel"]
                  ELSE disk[i]]
    /\ isProcessingFileChange' = (isProcessingFileChange \/ fileWatcher = "active")
    /\ UNCHANGED <<heap, mem, pollingInterval, fileWatcher, negotiationHandler, pass, chain,
                   nextEscrow, log>>

\* handleFileChange after its 100ms wait: file tasks that are pending and absent
\* from memory or in another status there replace the memory task and start the
\* timer; then every memory task that is not pending and has a file task becomes
\* a new object carrying the file task's fields
FileChange(s) ==
    LET inMem(e) == \E i \in 1..Len(s.m) : s.m[i][1] = e
        memObj(e) == s.m[Min({i \in 1..Len(s.m) : s.m[i][1] = e})]
        inFile(e) == \E i \in 1..Len(s.d) : s.d[i].escrow = e
        fileTask(e) == s.d[Min({i \in 1..Len(s.d) : s.d[i].escrow = e})]
        pushed == SelectSeq(s.d, LAMBDA ft : /\ ft.status = "pending"
                                              /\ (~inMem(ft.escrow) \/ s.h[memObj(ft.escrow)].status # "pending"))
        pushedEs == {pushed[i].escrow : i \in 1..Len(pushed)}
        kept == SelectSeq(s.m, LAMBDA o : o[1] \notin pushedEs)
        fresh(e) == <<e, FreeSlot(s.h, e)>>
        replaced(o) == o[1] \in pushedEs \/ (inFile(o[1]) /\ s.h[o].status # "pending")
        m2 == [i \in 1..(Len(kept) + Len(pushed)) |->
                 IF i <= Len(kept)
                 THEN (IF replaced(kept[i]) THEN fresh(kept[i][1]) ELSE kept[i])
                 ELSE fresh(pushed[i - Len(kept)].escrow)]
        h2 == [o \in Objs |->
                 IF o = fresh(o[1]) /\ (o[1] \in pushedEs \/ (inMem(o[1]) /\ replaced(memObj(o[1]))))
                 THEN fileTask(o[1]) ELSE s.h[o]]
        P2 == Detach(s.P)
    IN [s EXCEPT !.h = GC(h2, m2, P2), !.m = m2, !.P = P2,
                 !.t = s.t \/ pushedEs # {}]

HandleFileChange ==
    /\ UNCHANGED auxVars
    /\ isProcessingFileChange
    /\ isProcessingFileChange' = FALSE
    /\ \E s \in {FileChange(Cur)} : Becomes(s)
    /\ UNCHANGED <<negotiationHandler, chain, nextEscrow, ops>>

\* startPolling, called by the wallet provider's constructor
StartPolling ==
    /\ UNCHANGED auxVars
    /\ ops < MaxOps
    /\ ~pollingInterval
    /\ \E i \in 1..Len(mem) : heap[mem[i]].status \in Active
    /\ ops' = ops + 1
    /\ pollingInterval' = TRUE
    /\ UNCHANGED <<heap, mem, disk, fileWatcher, isProcessingFileChange, negotiationHandler,
                   pass, chain, nextEscrow, log>>

\* the process stops and is started again: the constructor loads the file,
\* resumes polling when a task is pending or request_cancel, and watches the
\* file. Poll passes in flight are gone; each transaction they had submitted
\* and not seen confirmed has landed or not (landed)
Restart(landed) ==
    /\ UNCHANGED auxVars
    /\ ops < MaxOps
    /\ disk # <<>>
    /\ ops' = ops + 1
    /\ LET inFlight(pc) == {pass[p].loop[pass[p].idx][1] : p \in {q \in Passes : pass[q].pc = pc}}
       IN /\ landed \subseteq {e \in inFlight("exchange") \cup inFlight("cancel") : chain[e] = "open"}
          /\ chain' = [e \in Escrows |->
                         IF e \notin landed THEN chain[e]
                         ELSE IF e \in inFlight("exchange") THEN "exchanged" ELSE "cancelled"]
    /\ mem' = [i \in 1..Len(disk) |-> <<disk[i].escrow, 1>>]
    /\ heap' = [o \in Objs |->
                  IF o[2] = 1 /\ \E i \in 1..Len(disk) : disk[i].escrow = o[1]
                  THEN disk[Min({i \in 1..Len(disk) : disk[i].escrow = o[1]})]
                  ELSE NoObj]
    /\ pollingInterval' = \E i \in 1..Len(disk) : disk[i].status \in Active
    /\ fileWatcher' = "active"
    /\ isProcessingFileChange' = FALSE
    /\ negotiationHandler' = FALSE
    /\ pass' = [p \in Passes |-> IdlePass]
    /\ UNCHANGED <<disk, nextEscrow, log>>

\* setNegotiationHandler
SetNegotiationHandler ==
    /\ UNCHANGED auxVars
    /\ ~negotiationHandler
    /\ negotiationHandler' = TRUE
    /\ UNCHANGED <<heap, mem, disk, pollingInterval, fileWatcher, isProcessingFileChange,
                   pass, chain, nextEscrow, ops, log>>

Next ==
    \/ \E p \in Passes : TimerTick(p)
    \/ \E p \in Passes, r \in {"met", "unmet", "throw"} : CheckReturn(p, r)
    \/ \E p \in Passes, ok \in BOOLEAN : ExchangeReturn(p, ok)
    \/ \E p \in Passes, ok \in BOOLEAN : NotifyReturn(p, ok)
    \/ \E p \in Passes, ok \in BOOLEAN : CancelReturn(p, ok)
    \/ \E tw \in Tweets : AddPollingTask(tw)
    \/ \E e \in Escrows : RequestCancellation(e)
    \/ \E e \in Escrows : OperatorEdit(e)
    \/ HandleFileChange
    \/ StartPolling
    \/ \E landed \in SUBSET Escrows : Restart(landed)
    \/ SetNegotiationHandler

Spec == Init /\ [][Next]_vars

\* ------------------------------------------------------------------ taker side
\* raw-unit tolerance of the initializer deposit
DepositTolerance == 1000
\* data length of an SPL token account
TokenAccountSize == 165

ExpectedAmounts == {5000}
BalanceOffsets == {0 - DepositTolerance, 1 - DepositTolerance, 0, DepositTolerance - 1, DepositTolerance}
AccountSizes == {0, 82, TokenAccountSize}

Abs(x) == IF x < 0 THEN 0 - x ELSE x

\* what the chain and the RPC node answer for one transaction reference
VerifyInputs ==
    [rpcFails : BOOLEAN,          \* one of the reads throws
     txFound : BOOLEAN,           \* the transaction with its postTokenBalances
     escrowFound : BOOLEAN,       \* an account key of the transaction is owned by the program
     escrowInfo : {"program", "other", "none"},   \* owner of that account when read again
     vaultAEntry : BOOLEAN,       \* a post balance of mintA owned by the escrow account
     vaultBEntry : BOOLEAN,
     vaultALen : AccountSizes,    \* data length of the vault account, 0: no account
     vaultBLen : AccountSizes,
     expectedA : ExpectedAmounts, \* rawExpectedAmountA
     offsetA : BalanceOffsets,    \* balance of vault A minus rawExpectedAmountA
     expectedB : ExpectedAmounts,
     balanceB : {0, 1, 5000},
     mintFails : BOOLEAN,         \* getMint or getAssociatedTokenAddress throws
     transferFails : BOOLEAN]

Unverified(in) == [isSecure |-> FALSE, isFunded |-> FALSE, remainingAmount |-> in.expectedB, vaultB |-> FALSE]

\* verifyEscrowSetup
VerifyEscrowSetup(in) ==
    IF in.rpcFails \/ ~in.txFound THEN Unverified(in)
    ELSE IF ~in.escrowFound THEN Unverified(in)
    ELSE IF ~in.vaultAEntry \/ ~in.vaultBEntry THEN Unverified(in)
    ELSE IF in.vaultALen = 0 \/ in.vaultBLen = 0 THEN Unverified(in)
    ELSE [isFunded |-> Abs((in.expectedA + in.offsetA) - in.expectedA) < DepositTolerance,
          remainingAmount |-> in.expectedB - in.balanceB,
          isSecure |-> /\ in.escrowInfo = "program"
                       /\ in.vaultALen = TokenAccountSize
                       /\ in.vaultBLen = TokenAccountSize,
          vaultB |-> TRUE]

\* a gate that looks at the account layout only
SecureOnly(isSecure, isFunded) == isSecure

\* verifyAndCompleteEscrow: the verification lets the call go on
ProceedToTransfer(isSecure, isFunded) == ~(~isSecure \/ ~isFunded)

\* a catch that lets the error leave the call
Rethrows(v) == [v EXCEPT !.pc = "done", !.thrown = TRUE]

\* the outer catch of verifyAndCompleteEscrow: log, return false
OuterCatch(v) == [v EXCEPT !.pc = "done", !.result = FALSE]

InitVerify ==
    /\ PollInit
    /\ call = NoCall
    /\ neg = NoNeg
    /\ accept = NoAccept
    /\ store = NoStore
    /\ \E in \in VerifyInputs :
          verify = [pc |-> "called", in |-> in, verification |-> Unverified(in),
                    transfer |-> FALSE, result |-> FALSE, thrown |-> FALSE]

\* verifyAndCompleteEscrow awaits verifyEscrowSetup
VerifyReturn ==
    /\ verify.pc = "called"
    /\ verify' = [verify EXCEPT !.pc = "verified", !.verification = VerifyEscrowSetup(verify.in)]
    /\ UNCHANGED <<pollVars, call, accept, store, neg>>

\* verifyAndCompleteEscrow after the verification: false, or getMint and
\* getAssociatedTokenAddress, then transferToVault is submitted
CompleteEscrow ==
    /\ verify.pc = "verified"
    /\ LET v == verify.verification
       IN IF ~ProceedToTransfer(v.isSecure, v.isFunded)
          THEN verify' = [verify EXCEPT !.pc = "done", !.result = FALSE]
          ELSE IF v.vaultB /\ v.remainingAmount > 0
               THEN IF verify.in.mintFails
                    THEN verify' = OuterCatch(verify)
                    ELSE verify' = [verify EXCEPT !.pc = "transfer", !.transfer = TRUE]
               ELSE verify' = [verify EXCEPT !.pc = "done", !.result = FALSE]
    /\ UNCHANGED <<pollVars, call, accept, store, neg>>

\* transferToVault returns or throws
TransferReturn ==
    /\ verify.pc = "transfer"
    /\ verify' = [verify EXCEPT !.pc = "done", !.result = ~verify.in.transferFails]
    /\ UNCHANGED <<pollVars, call, accept, store, neg>>

NextVerify ==
    \/ VerifyReturn
    \/ CompleteEscrow
    \/ TransferReturn

SpecVerify == InitVerify /\ [][NextVerify]_vars

\* ------------------------------------------------------------------ acceptDeal
\* calls of acceptDeal for one deal (one trade request, one persisted current_offer)
MaxAttempts == 3

\* variant "client": NegotiationHandler.acceptDeal, called by handleNegotiation for
\* a trade request file that is kept and processed again until handled;
\* variant "plugin": acceptDeal of the negotiations plugin
InitAccept ==
    /\ PollInit
    /\ call = NoCall
    /\ verify = NoVerify
    /\ neg = NoNeg
    /\ store = NoStore
    /\ \E variant \in {"client", "plugin"}, cpInit \in BOOLEAN :
          accept = [pc |-> "idle", variant |-> variant,
                    counterparty_is_initiator |-> cpInit,
                    negotiation_status |-> "pending",
                    attempts |-> 0, escrows |-> 0, tasks |-> 0, replies |-> 0,
                    handled |-> FALSE]

\* acceptDeal is entered: the persisted status is still pending
AcceptDeal ==
    /\ accept.pc = "idle"
    /\ ~accept.handled
    /\ accept.negotiation_status = "pending"
    /\ accept.attempts < MaxAttempts
    /\ accept' = [accept EXCEPT !.attempts = @ + 1,
                                !.pc = IF ~accept.counterparty_is_initiator THEN "setup" ELSE "reply"]
    /\ UNCHANGED <<pollVars, call, verify, store, neg>>

\* initiateSmartContractAndPolling: setupEscrow returns the accounts of a new
\* escrow (then addPollingTask, which ignores a tweet id it already has) or throws
SetupEscrowReturn(ok) ==
    /\ accept.pc = "setup"
    /\ accept' = IF ok
                 THEN [accept EXCEPT !.escrows = @ + 1,
                                     !.tasks = IF @ = 0 THEN 1 ELSE @,
                                     !.pc = IF accept.variant = "client" THEN "reply" ELSE "save"]
                 ELSE [accept EXCEPT !.pc = "idle"]
    /\ UNCHANGED <<pollVars, call, verify, store, neg>>

\* client: composeState, generateMessageResponse, sendReply; plugin (counterparty
\* is the initiator): generateMessageResponse. Any of them may throw
ReplyReturn(ok) ==
    /\ accept.pc = "reply"
    /\ accept' = IF ok
                 THEN [accept EXCEPT !.replies = IF accept.variant = "client" THEN @ + 1 ELSE @,
                                     !.pc = "save"]
                 ELSE [accept EXCEPT !.pc = "idle"]
    /\ UNCHANGED <<pollVars, call, verify, store, neg>>

\* saveNegotiationState returns or throws
SaveNegotiationStateReturn(ok) ==
    /\ accept.pc = "save"
    /\ accept' = IF ok
                 THEN [accept EXCEPT !.negotiation_status =
                                         IF accept.counterparty_is_initiator
                                         THEN "waiting_for_escrow" ELSE "initiated_escrow",
                                     !.handled = TRUE,
                                     !.pc = "idle"]
                 ELSE [accept EXCEPT !.pc = "idle"]
    /\ UNCHANGED <<pollVars, call, verify, store, neg>>

NextAccept ==
    \/ AcceptDeal
    \/ \E ok \in BOOLEAN : SetupEscrowReturn(ok)
    \/ \E ok \in BOOLEAN : ReplyReturn(ok)
    \/ \E ok \in BOOLEAN : SaveNegotiationStateReturn(ok)

SpecAccept == InitAccept /\ [][NextAccept]_vars

\* ------------------------------------------------------------------ state file
\* states the engine saves in one behaviour; state 0 is the empty task list
MaxWrites == 3
\* crashes of the process in one behaviour
MaxCrashes == 2

\* the empty task list
EmptyState == 0

\* a file holds a complete state, is torn or is absent
StateFile(n) == [kind |-> "state", id |-> n]
TornFile == [kind |-> "torn", id |-> 0]
NoFile == [kind |-> "absent", id |-> 0]
NotLoaded == [kind |-> "none", id |-> 0]

Complete(file) == file.kind = "state"

\* the constructor has created the state file with the empty task list; exdev:
\* the temporary directory is on another filesystem than the state file
InitWrite ==
    /\ PollInit
    /\ call = NoCall
    /\ verify = NoVerify
    /\ neg = NoNeg
    /\ accept = NoAccept
    /\ \E exdev \in BOOLEAN :
          store = [pc |-> "idle", exdev |-> exdev, main |-> StateFile(EmptyState),
                   backup |-> NoFile, temp |-> NoFile, restoring |-> FALSE,
                   memory |-> EmptyState,   \* this.state
                   prev |-> EmptyState,     \* the state before the last saveState
                   new |-> EmptyState,      \* the state of the last saveState
                   loaded |-> NotLoaded,    \* what the last safeReadState returned
                   writes |-> 0, crashes |-> 0]

\* safeWriteState(state): writeFileSync of the temp file
SafeWriteTemp ==
    /\ store.pc = "idle"
    /\ store.writes < MaxWrites
    /\ store' = [store EXCEPT !.pc = "backup", !.temp = StateFile(store.writes + 1),
                              !.prev = store.memory, !.new = store.writes + 1,
                              !.memory = store.writes + 1,
                              !.loaded = NotLoaded, !.writes = @ + 1]
    /\ UNCHANGED <<pollVars, call, verify, accept, neg>>

\* safeWriteState: the current state file, if any, is copied over the backup
SafeWriteBackup ==
    /\ store.pc = "backup"
    /\ store' = [store EXCEPT !.pc = "install",
                              !.backup = IF store.main # NoFile THEN store.main ELSE @]
    /\ UNCHANGED <<pollVars, call, verify, accept, neg>>

\* safeWriteState: the temp file is renamed to the state file, or copied and
\* unlinked when rename fails with EXDEV; a restoring safeReadState then returns
\* the backup state
SafeWriteInstall ==
    /\ store.pc = "install"
    /\ store' = [store EXCEPT !.pc = "idle", !.main = store.temp, !.temp = NoFile,
                              !.restoring = FALSE,
                              !.loaded = IF store.restoring THEN store.temp ELSE @,
                              !.memory = IF store.restoring THEN store.temp.id ELSE @]
    /\ UNCHANGED <<pollVars, call, verify, accept, neg>>

\* the process dies inside safeWriteState; torn: inside the copy it was making
\* (copyFileSync to the backup, or the EXDEV copy to the state file)
Crash(torn) ==
    /\ store.pc \in {"backup", "install"}
    /\ store.crashes < MaxCrashes
    /\ torn => (store.pc = "backup" /\ store.main # NoFile) \/ (store.pc = "install" /\ store.exdev)
    /\ store' = [store EXCEPT !.pc = "down", !.restoring = FALSE, !.crashes = @ + 1,
                              !.backup = IF torn /\ store.pc = "backup" THEN TornFile ELSE @,
                              !.main = IF torn /\ store.pc = "install" THEN TornFile ELSE @]
    /\ UNCHANGED <<pollVars, call, verify, accept, neg>>

\* safeReadState, called by the constructor of the next process: the state file
\* if it parses; else the backup if it exists and parses, which is first written
\* back with safeWriteState; else the empty state
SafeReadState ==
    /\ store.pc = "down"
    /\ store' = IF Complete(store.main)
                THEN [store EXCEPT !.pc = "idle", !.loaded = store.main, !.memory = store.main.id]
                ELSE IF Complete(store.backup)
                THEN [store EXCEPT !.pc = "backup", !.restoring = TRUE, !.temp = store.backup]
                ELSE [store EXCEPT !.pc = "idle", !.loaded = StateFile(EmptyState),
                                   !.memory = EmptyState]
    /\ UNCHANGED <<pollVars, call, verify, accept, neg>>

NextWrite ==
    \/ SafeWriteTemp
    \/ SafeWriteBackup
    \/ SafeWriteInstall
    \/ \E torn \in BOOLEAN : Crash(torn)
    \/ SafeReadState

SpecWrite == InitWrite /\ [][NextWrite]_vars

\* ------------------------------------------------------------------ loading
\* what a state file or its backup can hold when the engine loads it
LoadFiles == {NoFile, TornFile} \cup {StateFile(n) : n \in 0..MaxWrites}

\* a process is about to load: the state file and the backup hold anything
InitLoad ==
    /\ PollInit
    /\ call = NoCall
    /\ verify = NoVerify
    /\ neg = NoNeg
    /\ accept = NoAccept
    /\ \E exdev \in BOOLEAN, main \in LoadFiles, backup \in LoadFiles :
          store = [pc |-> "down", exdev |-> exdev, main |-> main,
                   backup |-> backup, temp |-> NoFile, restoring |-> FALSE,
                   memory |-> EmptyState, prev |-> EmptyState, new |-> EmptyState,
                   loaded |-> NotLoaded, writes |-> MaxWrites, crashes |-> MaxCrashes]

\* safeWriteState(backupState) throws inside safeReadState (writeFileSync,
\* copyFileSync or renameSync fails): the finally block removes the temp file,
\* the catch around the backup logs, and safeReadState returns the empty state
RestoreThrows ==
    /\ store.pc \in {"backup", "install"}
    /\ store.restoring
    /\ store' = [store EXCEPT !.pc = "idle", !.restoring = FALSE, !.temp = NoFile,
                              !.loaded = StateFile(EmptyState), !.memory = EmptyState]
    /\ UNCHANGED <<pollVars, call, verify, accept, neg>>

NextLoad ==
    \/ SafeReadState
    \/ SafeWriteBackup
    \/ SafeWriteInstall
    \/ RestoreThrows

SpecLoad == InitLoad /\ [][NextLoad]_vars

\* ------------------------------------------------------------------ deal evaluation
\* 0.95, as hundredths: the share of our side's value the counterparty must
\* cover, and the share of the cap above which an offer counts as final
FairShare == 95

\* price data could not be fetched (getTokenPrices returned null)
NoPrices == [ok |-> FALSE, our |-> 0, their |-> 0]
Prices(our, their) == [ok |-> TRUE, our |-> our, their |-> their]

Rejected == [kind |-> "result", shouldAccept |-> FALSE, counterpartyTokenAmount |-> 0,
             ourTokenAmount |-> 0]
PriceError == [kind |-> "error", shouldAccept |-> FALSE, counterpartyTokenAmount |-> 0,
               ourTokenAmount |-> 0]

\* a deal evaluator with the comparison turned round
AcceptsCheaper(theirValue, ourValue) == theirValue * 100 <= ourValue * FairShare

\* evaluateProposedDeal: counterpartyTokenValue >= ourTokenValue * 0.95
WithinFairValue(theirValue, ourValue) == theirValue * 100 >= ourValue * FairShare

\* evaluateProposedDeal after the amounts were extracted from the message (an
\* amount that is missing or not a number is 0): over the cap, then zero
\* amounts, then the prices, then the comparison of the two values
EvaluateProposedDeal(theirAmount, ourAmount, cap, prices) ==
    IF ourAmount > cap THEN Rejected
    ELSE IF ourAmount = 0 \/ theirAmount = 0 THEN Rejected
    ELSE IF ~prices.ok THEN PriceError
    ELSE [kind |-> "result",
          shouldAccept |-> WithinFairValue(theirAmount * prices.their, ourAmount * prices.our),
          counterpartyTokenAmount |-> theirAmount,
          ourTokenAmount |-> ourAmount]

\* proposals, caps and prices the evaluator is called with
ProposedOurs == {0, 400, 500, 600}
ProposedTheirs == {0, 900, 950, 1000}
EvalCaps == {0, 500, 1000}
EvalPrices == {NoPrices, Prices(2, 1), Prices(1, 1), Prices(1, 2)}

InitEval ==
    /\ PollInit
    /\ call = NoCall
    /\ verify = NoVerify
    /\ accept = NoAccept
    /\ store = NoStore
    /\ \E theirAmount \in ProposedTheirs, ourAmount \in ProposedOurs, cap \in EvalCaps,
          prices \in EvalPrices :
          neg = [pc |-> "proposal", theirAmount |-> theirAmount, ourAmount |-> ourAmount,
                 cap |-> cap, prices |-> prices, out |-> Rejected]

\* one call of evaluateProposedDeal
Evaluate ==
    /\ neg.pc = "proposal"
    /\ neg' = [neg EXCEPT !.pc = "evaluated",
                          !.out = EvaluateProposedDeal(neg.theirAmount, neg.ourAmount,
                                                       neg.cap, neg.prices)]
    /\ UNCHANGED <<pollVars, call, verify, accept, store>>

NextEval == Evaluate

SpecEval == InitEval /\ [][NextEval]_vars

\* ------------------------------------------------------------------ negotiation rounds
\* inbound messages handled for one counterparty in one behaviour
MaxRounds == 3

\* the counterparty's tier in the negotiation settings: max_offer_amount and
\* max_negotiations; our_token.minimum_balance
TierMaxOffer == 100
TierMaxNegotiations == 1
MinimumBalance == 10
\* max_negotiations of the state loadNegotiationState makes up when nothing is stored
DefaultMaxNegotiations == 3

\* min_offer_percentage and max_offer_percentage of the tier
MinOfferPercentage == 50
MaxOfferPercentage == 90
\* the random factor of an initial offer, as hundredths: from min_offer_percentage
\* up to, and excluding, max_offer_percentage
InitialFactors == <<50, 89>>
\* the random factor of a later offer, as hundredths: Math.random() * 0.9 + 0.1
RaiseFactors == <<50, 99>>
FactorChoices == 1..2

\* balances of our token the wallet can hold when a round reads it
Balances == {400, 80, MinimumBalance}
Conversations == 1..2

\* a field that a stored state does not have (undefined), or NaN
Undefined == 0 - 1

\* no memory is stored for the counterparty
NoMemory == [negotiation_status |-> "absent", conversation_id |-> 0,
             last_interaction |-> FALSE, amount |-> 0,
             negotiation_count |-> Undefined, max_negotiations |-> Undefined,
             counterparty_is_initiator |-> "undefined"]

\* the state loadNegotiationState returns when no memory is stored
DefaultState == [negotiation_status |-> "not_started", conversation_id |-> 0,
                 last_interaction |-> FALSE, amount |-> 0,
                 negotiation_count |-> 0, max_negotiations |-> DefaultMaxNegotiations,
                 counterparty_is_initiator |-> "false"]

\* saveNegotiationState spreads the stored state, or {} when there is none,
\* under the fields it is given
ExistingState(memory) ==
    IF memory = NoMemory THEN [NoMemory EXCEPT !.negotiation_status = "undefined"]
    ELSE memory

LoadNegotiationState(memory) == IF memory = NoMemory THEN DefaultState ELSE memory

\* a refractory test that never finds an interaction too recent
NeverTooRecent(st, clock) == FALSE

\* hasTooRecentAnInteraction: false without a last_interaction, else whether
\* the refractory period since it is still running
HasTooRecentAnInteraction(st, clock) == st.last_interaction /\ clock = "recent"

\* adjustOfferLimits: the tier's cap, a quarter of the balance when the balance
\* is below the cap, nothing at or below the minimum balance
AdjustOfferLimits(balance) ==
    IF balance <= MinimumBalance THEN 0
    ELSE IF balance < TierMaxOffer THEN balance \div 4
    ELSE TierMaxOffer

\* calculateOffer: current_offer.amount after the call
CalculateOffer(cap, current, f) ==
    IF current = 0 THEN (cap * InitialFactors[f]) \div 100
    ELSE (current * 100 + (cap - current) * RaiseFactors[f]) \div 100

\* a final-offer test that also counts an offer at exactly 0.95 of the cap
IsFinalOfferOrEqual(amount, cap) == amount * 100 >= FairShare * cap

\* offerTradeDeal: current_offer.amount > 0.95 * max_offer_amount
IsFinalOffer(amount, cap) == amount * 100 > FairShare * cap

Incremented(count) == IF count = Undefined THEN Undefined ELSE count + 1

\* what a round can fail at: the price fetch, the escrow operation (setupEscrow,
\* or the verification and completion of the counterparty's escrow), the
\* generation of the reply text, the sending of the reply, saveNegotiationState
\* before its removeMemory, its createMemory after the removeMemory
Failures == {"none", "prices", "escrow", "generate", "reply", "save", "create"}

PricesOf(env) == IF env.fail = "prices" THEN NoPrices ELSE Prices(1, 1)

\* inbound messages: an alliance request, an acceptance, a plain rejection, a
\* "Deal. I have sent ... Tx ID: ..." announcement, and token offers of
\* ours for theirs
Proposals == {<<50, 50>>, <<50, 10>>, <<200, 200>>}
Messages ==
    [kind : {"alliance", "accept", "reject", "transfer"}, conv : Conversations,
     ours : {0}, theirs : {0}]
    \cup {[kind |-> "offer", conv |-> v, ours |-> p[1], theirs |-> p[2]] :
            v \in Conversations, p \in Proposals}

Environments == [balance : Balances, f : FactorChoices, fail : Failures]

\* a round in progress: the stored state, the negotiationState object of the
\* handler, the cap read from the balance, what the round returns and what it
\* did to the outside
StartRound(memory, cap) ==
    [memory |-> memory, st |-> LoadNegotiationState(memory), cap |-> cap,
     ret |-> "ok", replies |-> 0, escrows |-> 0, tasks |-> 0,
     offered |-> Undefined, reset |-> FALSE, ignored |-> FALSE, step |-> "none",
     stamped |-> FALSE, saved |-> FALSE]

Throws(c) == [c EXCEPT !.ret = "throw"]
ReturnsFalse(c) == [c EXCEPT !.ret = "false"]
Ignores(c) == [c EXCEPT !.ignored = TRUE]
Replies(c) == [c EXCEPT !.replies = @ + 1]
\* the callback of a plugin action posts the reply
Callback(c, env) == IF env.fail = "reply" THEN Throws(c) ELSE Replies(c)

\* clearNegotiationState followed by loadNegotiationState
ClearNegotiationState(c) ==
    [c EXCEPT !.memory = NoMemory, !.st = DefaultState, !.reset = TRUE]

\* saveNegotiationState: removeMemory of the stored state, then createMemory of
\* the merged one; an error of either is rethrown
SaveNegotiationState(c, merged, env) ==
    IF env.fail = "save" THEN Throws(c)
    ELSE IF env.fail = "create" THEN Throws([c EXCEPT !.memory = NoMemory])
    ELSE [c EXCEPT !.memory = merged, !.saved = TRUE,
                   !.stamped = merged.last_interaction /\ ~c.memory.last_interaction]

\* offerTradeDeal of the twitter client (sends the offer itself) and of the
\* plugin (returns the text, "" without prices)
OfferTradeDeal(c, msg, env, impl) ==
    IF ~PricesOf(env).ok THEN ReturnsFalse(c)
    ELSE LET amount == CalculateOffer(c.cap, c.st.amount, env.f)
             count == IF IsFinalOffer(amount, c.cap)
                      THEN Incremented(c.st.negotiation_count)
                      ELSE c.st.negotiation_count
             c1 == [c EXCEPT !.offered = amount, !.step = "offer",
                             !.st.amount = amount, !.st.negotiation_count = count]
             merged == [negotiation_status |-> "pending",
                        conversation_id |-> msg.conv,
                        last_interaction |-> TRUE,
                        amount |-> amount,
                        negotiation_count |-> count,
                        max_negotiations |-> TierMaxNegotiations,
                        counterparty_is_initiator |-> c.st.counterparty_is_initiator]
         IN  IF env.fail = "generate" THEN Throws(c1)
             ELSE IF impl = "client" /\ env.fail = "reply" THEN Throws(c1)
             ELSE SaveNegotiationState(IF impl = "client" THEN Replies(c1) ELSE c1,
                                       merged, env)

\* acceptDeal: sets up the escrow and the polling task unless
\* counterparty_is_initiator is truthy, then saves the status, the offer, the
\* conversation and the last interaction over the stored state
AcceptDealOf(c, msg, env, impl) ==
    LET initiates == c.st.counterparty_is_initiator # "true"
        c1 == IF initiates
              THEN [c EXCEPT !.escrows = @ + 1, !.tasks = @ + 1, !.step = "accept"]
              ELSE [c EXCEPT !.step = "accept"]
        merged == [ExistingState(c.memory) EXCEPT
                      !.negotiation_status = IF initiates THEN "initiated_escrow"
                                             ELSE "waiting_for_escrow",
                      !.conversation_id = msg.conv,
                      !.last_interaction = TRUE,
                      !.amount = c.st.amount]
        failed(x) == IF impl = "client" THEN Throws(x) ELSE ReturnsFalse(x)
    IN  IF initiates /\ env.fail = "escrow" THEN failed([c EXCEPT !.step = "accept"])
        ELSE IF env.fail = "generate" /\ (impl = "client" \/ ~initiates) THEN failed(c1)
        ELSE IF impl = "client" /\ env.fail = "reply" THEN failed(c1)
        ELSE LET c2 == SaveNegotiationState(IF impl = "client" THEN Replies(c1) ELSE c1,
                                            merged, env)
             IN  IF c2.ret = "throw" THEN failed(c2) ELSE c2

\* endNegotiation: the closing reply and the status failed over the stored state
EndNegotiation(c, env, impl) ==
    LET c1 == [c EXCEPT !.step = "end"]
        merged == [ExistingState(c.memory) EXCEPT !.negotiation_status = "failed"]
    IN  IF env.fail = "generate" THEN Throws(c1)
        ELSE IF impl = "client" /\ env.fail = "reply" THEN Throws(c1)
        ELSE SaveNegotiationState(IF impl = "client" THEN Replies(c1) ELSE c1,
                                  merged, env)

\* initiateTransfer: the counterparty announced its escrow; the agent verifies
\* it, completes the exchange and marks the negotiation completed
InitiateTransfer(c, msg, env, impl) ==
    LET c1 == [c EXCEPT !.step = "transfer"]
        merged == [ExistingState(c.memory) EXCEPT !.negotiation_status = "completed"]
    IN  IF msg.kind # "transfer" THEN ReturnsFalse(c1)
        ELSE IF env.fail = "escrow" THEN ReturnsFalse(c1)
        ELSE IF env.fail = "generate" THEN Throws(c1)
        ELSE IF env.fail = "reply" /\ impl = "client" THEN Throws(c1)
        ELSE SaveNegotiationState(IF impl = "client" THEN Replies(c1) ELSE c1,
                                  merged, env)

\* processNegotiationResponse of the twitter client: a message in the
\* conversation of a pending negotiation
ProcessNegotiationResponse(c, msg, env) ==
    IF msg.kind = "transfer"
    THEN LET t == InitiateTransfer(c, msg, env, "client")
         IN  IF t.ret = "false" THEN [t EXCEPT !.ret = "ok"] ELSE t
    ELSE IF msg.kind = "offer"
    THEN LET deal == EvaluateProposedDeal(msg.theirs, msg.ours, c.cap, PricesOf(env))
         IN  IF deal.kind = "error" THEN Throws(c)
             ELSE IF deal.shouldAccept
             THEN AcceptDealOf([c EXCEPT !.st.amount = deal.ourTokenAmount], msg, env, "client")
             ELSE OfferTradeDeal(c, msg, env, "client")
    ELSE IF msg.kind = "accept" THEN AcceptDealOf(c, msg, env, "client")
    ELSE IF c.st.negotiation_count = c.st.max_negotiations
    THEN EndNegotiation(c, env, "client")
    ELSE OfferTradeDeal(c, msg, env, "client")

\* isNegotiation of the twitter client: whether the message is handed to
\* handleNegotiation
IsNegotiation(memory, clock, msg) ==
    LET st == LoadNegotiationState(memory)
    IN  \/ msg.kind \in {"alliance", "offer"}
        \/ /\ st.negotiation_status # "not_started"
           /\ IF msg.conv = st.conversation_id
              THEN st.negotiation_status \notin {"failed", "completed"}
              ELSE ~HasTooRecentAnInteraction(st, clock)

\* handleNegotiation of the twitter client, for a whitelisted counterparty
HandleNegotiation(memory, clock, msg, env) ==
    LET c0 == StartRound(memory, AdjustOfferLimits(env.balance))
        started == c0.st.negotiation_status # "not_started"
        same == started /\ msg.conv = c0.st.conversation_id
        fresh(c) ==
            IF msg.kind = "offer"
            THEN LET deal == EvaluateProposedDeal(msg.theirs, msg.ours, c.cap, PricesOf(env))
                     c1 == [c EXCEPT !.st.counterparty_is_initiator = "true",
                                     !.st.amount = deal.ourTokenAmount]
                 IN  IF deal.kind = "error" THEN Throws(c)
                     ELSE IF deal.shouldAccept THEN AcceptDealOf(c1, msg, env, "client")
                     ELSE OfferTradeDeal(c1, msg, env, "client")
            ELSE IF msg.kind = "alliance" THEN OfferTradeDeal(c, msg, env, "client")
            ELSE ReturnsFalse(c)
    IN  IF c0.cap <= 0 THEN ReturnsFalse(c0)
        ELSE IF same /\ c0.st.negotiation_status = "pending"
        THEN ProcessNegotiationResponse(c0, msg, env)
        ELSE IF same /\ c0.st.negotiation_status = "waiting_for_escrow"
        THEN InitiateTransfer(c0, msg, env, "client")
        ELSE IF same /\ c0.st.negotiation_status \in {"completed", "failed", "initiated_escrow"}
        THEN Ignores(c0)
        ELSE IF started
        THEN IF HasTooRecentAnInteraction(c0.st, clock) THEN Ignores(c0)
             ELSE fresh(ClearNegotiationState(c0))
        ELSE fresh(c0)

\* the handler of the plugin's TRADE action (hasOfferedTokens)
HasOfferedTokens(memory, clock, msg, env) ==
    LET c0 == StartRound(memory, AdjustOfferLimits(env.balance))
        stale == c0.st.negotiation_status \notin {"not_started", "pending"}
        other == /\ c0.st.negotiation_status = "pending"
                 /\ c0.st.conversation_id # msg.conv
        c == IF stale \/ other THEN ClearNegotiationState(c0) ELSE c0
        deal == EvaluateProposedDeal(msg.theirs, msg.ours, c.cap, PricesOf(env))
        c1 == IF c.st.negotiation_status = "not_started"
              THEN [c EXCEPT !.st.counterparty_is_initiator = "true"]
              ELSE c
        accepted == AcceptDealOf([c1 EXCEPT !.st.amount = deal.ourTokenAmount],
                               msg, env, "plugin")
        ended == EndNegotiation(c1, env, "plugin")
        offered == OfferTradeDeal(c1, msg, env, "plugin")
    IN  IF (stale \/ other) /\ HasTooRecentAnInteraction(c0.st, clock)
        THEN ReturnsFalse(Ignores(c0))
        ELSE IF deal.kind = "error" THEN Throws(c1)
        ELSE IF deal.shouldAccept
        THEN IF accepted.ret = "ok" THEN Callback(accepted, env) ELSE accepted
        ELSE IF c1.st.negotiation_count = c1.st.max_negotiations
        THEN IF ended.ret = "ok" THEN Callback(ended, env) ELSE ended
        ELSE IF offered.ret = "throw" THEN offered ELSE Callback(offered, env)

\* the handler of the plugin's ALLIANCE action
Alliance(memory, clock, msg, env) ==
    LET c0 == StartRound(memory, AdjustOfferLimits(env.balance))
        started == c0.st.negotiation_status # "not_started"
        c == IF started THEN ClearNegotiationState(c0) ELSE c0
        offered == OfferTradeDeal(c, msg, env, "plugin")
    IN  IF started /\ HasTooRecentAnInteraction(c0.st, clock)
        THEN ReturnsFalse(Ignores(c0))
        ELSE IF offered.ret = "throw" THEN Replies(offered)
        ELSE Callback(offered, env)

\* the handler of the plugin's hasAcceptedOffer action
HasAcceptedOffer(memory, clock, msg, env) ==
    LET c0 == StartRound(memory, AdjustOfferLimits(env.balance))
        live == c0.st.negotiation_status \in {"pending", "waiting_for_escrow"}
        transferred == InitiateTransfer(c0, msg, env, "plugin")
        accepted == AcceptDealOf(c0, msg, env, "plugin")
    IN  IF ~live
        THEN IF HasTooRecentAnInteraction(c0.st, clock) THEN ReturnsFalse(Ignores(c0))
             ELSE ClearNegotiationState(c0)
        ELSE IF c0.st.conversation_id # msg.conv THEN ReturnsFalse(Ignores(c0))
        ELSE IF msg.kind = "transfer"
        THEN IF transferred.ret = "ok" THEN Callback(transferred, env) ELSE transferred
        ELSE IF accepted.ret = "ok" THEN Callback(accepted, env) ELSE accepted

\* no round has been handled yet
NoRound == [handler |-> "none", kind |-> "none", conv |-> 0, cap |-> 0, ret |-> "ok", replies |-> 0, escrows |-> 0,
            offered |-> Undefined, reset |-> FALSE, ignored |-> FALSE, step |-> "none",
            saved |-> FALSE]

\* who sent the first message of the negotiation that is stored
Origin(r, msg) ==
    IF r.memory = NoMemory THEN "none"
    ELSE IF neg.memory = NoMemory \/ r.reset
    THEN IF msg.kind = "offer" THEN "counterparty" ELSE "agent"
    ELSE neg.origin

\* the state after a round that came out as r
AfterRound(handler, msg, r) ==
    [pc |-> "idle", impl |-> neg.impl, memory |-> r.memory,
     clock |-> IF r.stamped \/ ~r.memory.last_interaction THEN "recent" ELSE neg.clock,
     rounds |-> neg.rounds + 1, tasks |-> neg.tasks + r.tasks,
     origin |-> Origin(r, msg),
     last |-> [handler |-> handler, kind |-> msg.kind, conv |-> msg.conv,
               cap |-> r.cap,
               ret |-> r.ret, replies |-> r.replies, escrows |-> r.escrows,
               offered |-> r.offered, reset |-> r.reset, ignored |-> r.ignored,
               step |-> r.step, saved |-> r.saved]]

AtRound(impl) ==
    /\ neg.pc = "idle"
    /\ neg.impl = impl
    /\ neg.rounds < MaxRounds

\* a fresh agent: no negotiation state is stored for the counterparty
InitNeg ==
    /\ PollInit
    /\ call = NoCall
    /\ verify = NoVerify
    /\ accept = NoAccept
    /\ store = NoStore
    /\ \E impl \in {"client", "plugin"} :
          neg = [pc |-> "idle", impl |-> impl, memory |-> NoMemory, clock |-> "recent",
                 rounds |-> 0, tasks |-> 0, origin |-> "none", last |-> NoRound]

\* the twitter client handles a message of the counterparty
ClientRound ==
    /\ AtRound("client")
    /\ \E msg \in Messages, env \in Environments :
          /\ IsNegotiation(neg.memory, neg.clock, msg)
          /\ \E r \in {HandleNegotiation(neg.memory, neg.clock, msg, env)} :
                neg' = AfterRound("handleNegotiation", msg, r)
    /\ UNCHANGED <<pollVars, call, verify, accept, store>>

\* the plugin's TRADE action validates and handles a token offer
TradeRound ==
    /\ AtRound("plugin")
    /\ \E msg \in Messages, env \in Environments :
          /\ msg.kind = "offer"
          /\ AdjustOfferLimits(env.balance) > 0
          /\ \E r \in {HasOfferedTokens(neg.memory, neg.clock, msg, env)} :
                neg' = AfterRound("hasOfferedTokens", msg, r)
    /\ UNCHANGED <<pollVars, call, verify, accept, store>>

\* the plugin's ALLIANCE action validates and handles an alliance request
AllianceRound ==
    /\ AtRound("plugin")
    /\ \E msg \in Messages, env \in Environments :
          /\ msg.kind = "alliance"
          /\ AdjustOfferLimits(env.balance) > 0
          /\ \E r \in {Alliance(neg.memory, neg.clock, msg, env)} :
                neg' = AfterRound("alliance", msg, r)
    /\ UNCHANGED <<pollVars, call, verify, accept, store>>

\* the plugin's hasAcceptedOffer action validates and handles an acceptance
\* or the announcement of a transfer
AcceptedRound ==
    /\ AtRound("plugin")
    /\ \E msg \in Messages, env \in Environments :
          /\ msg.kind \in {"accept", "transfer"}
          /\ \E r \in {HasAcceptedOffer(neg.memory, neg.clock, msg, env)} :
                neg' = AfterRound("hasAcceptedOffer", msg, r)
    /\ UNCHANGED <<pollVars, call, verify, accept, store>>

\* notifyEscrowComplete: the polling service completed the exchange of an
\* escrow the agent had set up; the agent replies and saves the status completed
NotifyEscrowComplete ==
    /\ neg.pc = "idle"
    /\ neg.tasks > 0
    /\ \E fail \in {"none", "reply", "save", "create"} :
          LET merged == [ExistingState(neg.memory) EXCEPT !.negotiation_status = "completed"]
              memory == IF fail \in {"reply", "save"} THEN neg.memory
                        ELSE IF fail = "create" THEN NoMemory
                        ELSE merged
          IN  neg' = [neg EXCEPT !.tasks = @ - 1, !.memory = memory,
                                 !.clock = IF memory.last_interaction THEN @ ELSE "recent",
                                 !.origin = IF memory = NoMemory THEN "none" ELSE @,
                                 !.last = [NoRound EXCEPT !.handler = "notifyEscrowComplete",
                                                          !.step = "complete",
                                                          !.saved = fail = "none",
                                                          !.ret = IF fail = "none" THEN "ok"
                                                                  ELSE "throw",
                                                          !.replies = IF fail = "reply"
                                                                      THEN 0 ELSE 1]]
    /\ UNCHANGED <<pollVars, call, verify, accept, store>>

\* the refractory period since the stored last_interaction runs out
RefractoryElapses ==
    /\ neg.pc = "idle"
    /\ neg.memory.last_interaction
    /\ neg.clock = "recent"
    /\ neg' = [neg EXCEPT !.clock = "elapsed"]
    /\ UNCHANGED <<pollVars, call, verify, accept, store>>

NextNeg ==
    \/ ClientRound
    \/ TradeRound
    \/ AllianceRound
    \/ AcceptedRound
    \/ NotifyEscrowComplete
    \/ RefractoryElapses

SpecNeg == InitNeg /\ [][NextNeg]_vars

\* ------------------------------------------------------------------ setupEscrow
\* one call of initiateSmartContractAndPolling: setupEscrow, then addPollingTask
MAX_RETRIES == 3

\* amounts of the accepted offer, in UI units
SetupAmounts == {1, 50, 200}

\* an error, reduced to the awaited call of setupEscrow that raised it and to
\* whether its message contains 'block height exceeded'
NoError == [at |-> "none", expired |-> FALSE]
SetupErrors == [at : {"prepare", "simulate", "send", "fetch", "refresh"}, expired : BOOLEAN]

RetriesAnyError(err) == TRUE

\* the test of the inner catch that decides between retry and rethrow
BlockHeightExceeded(err) == err.expired

InitSetup ==
    /\ PollInit
    /\ verify = NoVerify
    /\ accept = NoAccept
    /\ store = NoStore
    /\ neg = NoNeg
    /\ \E a \in SetupAmounts, b \in SetupAmounts :
          call = [pc |-> "prepare", initializerAmount |-> a, takerAmount |-> b,
                  i |-> 0, attempts |-> 0, sent |-> 0, blockhashes |-> 0,
                  latestBlockhash |-> 0, recentBlockhash |-> 0, simulated |-> <<>>,
                  submitted |-> <<>>,
                  errors |-> <<>>, lastError |-> NoError,
                  out |-> "running", thrown |-> NoError, tasks |-> 0, expectedAmount |-> 0]

\* an error leaves setupEscrow through the outer catch, which rethrows it, and
\* initiateSmartContractAndPolling through its own catch, which rethrows it too
SetupThrows(c, err) == [c EXCEPT !.pc = "done", !.out = "thrown", !.thrown = err]

\* the inner catch: remember the error, then refresh the blockhash or rethrow
SetupCatch(c, err) ==
    LET c1 == [c EXCEPT !.errors = Append(@, err), !.lastError = err]
    IN IF BlockHeightExceeded(err) THEN [c1 EXCEPT !.pc = "refresh"]
                                   ELSE SetupThrows(c1, err)

\* simTx and finalTx are built with latestBlockhash.blockhash
BuildTx(c) == [c EXCEPT !.simulated = Append(@, c.latestBlockhash)]

\* getMint, getAssociatedTokenAddress, initializeEscrow, getLatestBlockhash:
\* blockhashes are numbered in the order they are fetched; latestBlockhash is
\* the constant of setupEscrow, recentBlockhash the field of transaction
PrepareReturn(ok, expired) ==
    /\ call.pc = "prepare"
    /\ call' = IF ok
               THEN BuildTx([call EXCEPT !.pc = "simulate", !.attempts = 1, !.blockhashes = 1,
                                         !.latestBlockhash = 1, !.recentBlockhash = 1])
               ELSE SetupThrows(call, [at |-> "prepare", expired |-> expired])
    /\ UNCHANGED <<pollVars, verify, accept, store, neg>>

\* simulateTransaction returns without error, returns value.err, or throws
SimulateReturn(ok, expired) ==
    /\ call.pc = "simulate"
    /\ call' = IF ok
               THEN [call EXCEPT !.pc = "send", !.sent = @ + 1,
                                 !.submitted = Append(@, call.latestBlockhash)]
               ELSE SetupCatch(call, [at |-> "simulate", expired |-> expired])
    /\ UNCHANGED <<pollVars, verify, accept, store, neg>>

\* sendAndConfirmTransaction returns a signature or throws
SendReturn(ok, expired) ==
    /\ call.pc = "send"
    /\ call' = IF ok
               THEN [call EXCEPT !.pc = "fetch"]
               ELSE SetupCatch(call, [at |-> "send", expired |-> expired])
    /\ UNCHANGED <<pollVars, verify, accept, store, neg>>

\* getTransaction returns, and setupEscrow returns the accounts to
\* initiateSmartContractAndPolling, which registers the polling task; or throws
FetchReturn(ok, expired) ==
    /\ call.pc = "fetch"
    /\ call' = IF ok
               THEN [call EXCEPT !.pc = "done", !.out = "returned", !.tasks = @ + 1,
                                 !.expectedAmount = call.takerAmount]
               ELSE SetupCatch(call, [at |-> "fetch", expired |-> expired])
    /\ UNCHANGED <<pollVars, verify, accept, store, neg>>

\* getLatestBlockhash inside the inner catch, then continue: the next iteration,
\* or throw lastError once the loop is exhausted
RefreshReturn(ok, expired) ==
    /\ call.pc = "refresh"
    /\ call' = IF ~ok
               THEN SetupThrows(call, [at |-> "refresh", expired |-> expired])
               ELSE IF call.i + 1 < MAX_RETRIES
                    THEN BuildTx([call EXCEPT !.pc = "simulate", !.i = @ + 1,
                                              !.attempts = @ + 1, !.blockhashes = @ + 1,
                                              !.recentBlockhash = call.blockhashes + 1])
                    ELSE SetupThrows([call EXCEPT !.i = @ + 1, !.blockhashes = @ + 1,
                                                  !.recentBlockhash = call.blockhashes + 1],
                                     call.lastError)
    /\ UNCHANGED <<pollVars, verify, accept, store, neg>>

NextSetup ==
    \/ \E ok \in BOOLEAN, expired \in BOOLEAN : PrepareReturn(ok, expired)
    \/ \E ok \in BOOLEAN, expired \in BOOLEAN : SimulateReturn(ok, expired)
    \/ \E ok \in BOOLEAN, expired \in BOOLEAN : SendReturn(ok, expired)
    \/ \E ok \in BOOLEAN, expired \in BOOLEAN : FetchReturn(ok, expired)
    \/ \E ok \in BOOLEAN, expired \in BOOLEAN : RefreshReturn(ok, expired)

SpecSetup == InitSetup /\ [][NextSetup]_vars

\* ------------------------------------------------------------------ checkTokenBalance
\* one call of checkTokenBalance for a pending task, and what pollTasks does with
\* the answer

RECURSIVE Pow10(_)
Pow10(n) == IF n = 0 THEN 1 ELSE 10 * Pow10(n - 1)

\* a BigNumber: coefficient c with dp decimal places, c / 10^dp; an integer
\* string n is Big(n, 0), a JS number of h hundredths is Big(h, 2)
Big(c, dp) == [c |-> c, dp |-> dp]

\* x.dividedBy(Math.pow(10, d)): exact while the quotient has no more than
\* DECIMAL_PLACES (20) decimal places
DividedByPow10(x, d) == Big(x.c, x.dp + d)

\* x.multipliedBy(y)
MultipliedBy(x, y) == Big(x.c * y.c, x.dp + y.dp)

IsGreaterThan(x, y) ==
    LET m == Min({x.dp, y.dp})
    IN x.c * Pow10(y.dp - m) > y.c * Pow10(x.dp - m)

\* x.isGreaterThanOrEqualTo(y)
IsGreaterThanOrEqualTo(x, y) ==
    LET m == Min({x.dp, y.dp})
    IN x.c * Pow10(y.dp - m) >= y.c * Pow10(x.dp - m)

\* task.expectedAmount (UI units), task.threshold (hundredths), mint decimals
CheckedTasks == [expectedAmount : {1, 100, 1000}, threshold : {95, 100}, decimals : {0, 2, 6}]

\* raw vault balances around the threshold of a task, an empty and a full vault
RawBalances(expected, threshold, decimals) ==
    LET t == IF decimals >= 2 THEN expected * threshold * Pow10(decimals - 2)
                              ELSE (expected * threshold * Pow10(decimals)) \div 100
    IN {0, t, t + 1, expected * Pow10(decimals)}
       \cup (IF t > 0 THEN {t - 1} ELSE {})
       \cup (IF expected = 1000 /\ decimals = 6 THEN {960000000} ELSE {})

\* checkTokenBalance; in.answer is what the RPC node answers: getMint or
\* getParsedAccountInfo throws, there is no account, its data is not parsed, or
\* a parsed token account
CheckTokenBalance(in) ==
    IF in.answer = "throws" THEN [met |-> FALSE, error |-> TRUE, lastChecked |-> FALSE]
    ELSE IF in.answer \in {"missing", "unparsed"}
         THEN [met |-> FALSE, error |-> FALSE, lastChecked |-> FALSE]
    ELSE LET currentAmount == Big(in.raw, 0)
             expectedUiAmount == Big(in.expectedAmount, 0)
             currentUiAmount == DividedByPow10(currentAmount, in.decimals)
             thresholdAmount == MultipliedBy(expectedUiAmount, Big(in.threshold, 2))
         IN [met |-> IsGreaterThanOrEqualTo(currentUiAmount, thresholdAmount),
             error |-> FALSE, lastChecked |-> TRUE]

InitBalance ==
    /\ PollInit
    /\ verify = NoVerify
    /\ accept = NoAccept
    /\ store = NoStore
    /\ neg = NoNeg
    /\ \E task \in CheckedTasks, a \in {"throws", "missing", "unparsed", "parsed"} :
          \E raw \in RawBalances(task.expectedAmount, task.threshold, task.decimals) :
             call = [pc |-> "check",
                     in |-> [expectedAmount |-> task.expectedAmount,
                             threshold |-> task.threshold, decimals |-> task.decimals,
                             raw |-> raw, answer |-> a],
                     out |-> [met |-> FALSE, error |-> FALSE, lastChecked |-> FALSE],
                     exchange |-> FALSE]

\* pollTasks awaits checkTokenBalance for the pending task
BalanceReturn ==
    /\ call.pc = "check"
    /\ call' = [call EXCEPT !.pc = "checked", !.out = CheckTokenBalance(call.in)]
    /\ UNCHANGED <<pollVars, verify, accept, store, neg>>

\* pollTasks: executeActions if the threshold is met, else the task remains
AfterBalance ==
    /\ call.pc = "checked"
    /\ call' = [call EXCEPT !.pc = "done", !.exchange = call.out.met]
    /\ UNCHANGED <<pollVars, verify, accept, store, neg>>

NextBalance ==
    \/ BalanceReturn
    \/ AfterBalance

SpecBalance == InitBalance /\ [][NextBalance]_vars

\* ------------------------------------------------------------------ offer limits
\* tier lookups of one counterparty while the wallet balance of our token moves
MaxLookups == 2

\* balances in hundredths of a token (the holding's UI amount may be fractional)
LiveBalances == {0, 1000, 5000, 5001, 8000, 9999, 10000, 20000, 20370, 100000, 120000}
\* configured max_offer_amount of the tier and minimum_balance of our token
LimitSettings == [cap : {100, 1000}, minimum : {10, 50, 1000}]

\* the reserve test placed before the quarter rule instead of after it
QuarterOverridesReserve(balance, cap, minimum) ==
    IF balance < cap * 100 THEN balance \div 400
    ELSE IF balance <= minimum * 100 THEN 0
    ELSE cap

\* adjustOfferLimits: maxOfferAmount for a balance given in hundredths
AdjustOfferLimitsOf(balance, cap, minimum) ==
    LET quartered == IF balance < cap * 100 THEN balance \div 400 ELSE cap
    IN IF balance <= minimum * 100 THEN 0 ELSE quartered

InitLimits ==
    /\ PollInit
    /\ verify = NoVerify
    /\ accept = NoAccept
    /\ store = NoStore
    /\ neg = NoNeg
    /\ \E b \in LiveBalances, cfg \in LimitSettings :
          call = [pc |-> "idle", balance |-> b, cap |-> cfg.cap, minimum |-> cfg.minimum,
                  lookups |-> 0, max_offer_amount |-> cfg.cap, previous |-> cfg.cap]

\* getCounterpartyTierSettings: the tier's settings with max_offer_amount
\* replaced by what adjustOfferLimits returns for the balance read now
GetCounterpartyTierSettings ==
    /\ call.pc = "idle"
    /\ call.lookups < MaxLookups
    /\ call' = [call EXCEPT !.pc = "looked", !.lookups = @ + 1,
                            !.previous = call.max_offer_amount,
                            !.max_offer_amount =
                                AdjustOfferLimitsOf(call.balance, call.cap, call.minimum)]
    /\ UNCHANGED <<pollVars, verify, accept, store, neg>>

\* the wallet balance changes between two lookups
BalanceChanges(b) ==
    /\ call.pc = "looked"
    /\ call.lookups < MaxLookups
    /\ b # call.balance
    /\ call' = [call EXCEPT !.pc = "idle", !.balance = b]
    /\ UNCHANGED <<pollVars, verify, accept, store, neg>>

NextLimits ==
    \/ GetCounterpartyTierSettings
    \/ \E b \in LiveBalances : BalanceChanges(b)

SpecLimits == InitLimits /\ [][NextLimits]_vars

\* ------------------------------------------------------------------ refractory period
\* one evaluation of hasTooRecentAnInteraction by the twitter client and by the
\* plugin, for the same stored last_interaction and the same clock

\* refractory_period_days in half days, the day of the month of "now", and the
\* hours elapsed since last_interaction
RefractoryHalfDays == {1, 2, 3, 5}
DaysOfMonth == {1, 2, 15}
ElapsedHours == {0, 11, 12, 13, 23, 24, 25, 35, 36, 37, 47, 48, 49, 59, 60, 61, 71, 72, 73}

\* ToIntegerOrInfinity, applied by Date.prototype.setDate to its argument: the
\* fraction is dropped towards zero; argument and result in half days
ToIntegerOrInfinity(halves) ==
    IF halves >= 0 THEN 2 * (halves \div 2) ELSE 0 - 2 * ((0 - halves) \div 2)

\* the client: refractoryPeriodAgo.setDate(getDate() - refractoryPeriodDays),
\* then lastInteraction > refractoryPeriodAgo; the day that setDate selects lies
\* (getDate() - argument) days before now
ClientTooRecent(halfDays, dayOfMonth, elapsed) ==
    LET date == ToIntegerOrInfinity(2 * dayOfMonth - halfDays)
        hoursAgo == 12 * (2 * dayOfMonth - date)
    IN elapsed < hoursAgo

\* the plugin: now.getTime() - refractoryPeriodDays * 24 * 60 * 60 * 1000, then
\* lastInteraction > refractoryPeriodAgo
PluginTooRecent(halfDays, elapsed) == elapsed < 12 * halfDays

InitRefractory ==
    /\ PollInit
    /\ verify = NoVerify
    /\ accept = NoAccept
    /\ store = NoStore
    /\ neg = NoNeg
    /\ \E r \in RefractoryHalfDays, d \in DaysOfMonth, h \in ElapsedHours :
          call = [pc |-> "message", halfDays |-> r, dayOfMonth |-> d, elapsed |-> h,
                  client |-> FALSE, plugin |-> FALSE]

\* the client's handleNegotiation evaluates the refractory test
ClientEvaluates ==
    /\ call.pc \in {"message", "plugin"}
    /\ call' = [call EXCEPT !.pc = IF @ = "message" THEN "client" ELSE "both",
                            !.client = ClientTooRecent(call.halfDays, call.dayOfMonth,
                                                       call.elapsed)]
    /\ UNCHANGED <<pollVars, verify, accept, store, neg>>

\* a plugin action evaluates the refractory test
PluginEvaluates ==
    /\ call.pc \in {"message", "client"}
    /\ call' = [call EXCEPT !.pc = IF @ = "message" THEN "plugin" ELSE "both",
                            !.plugin = PluginTooRecent(call.halfDays, call.elapsed)]
    /\ UNCHANGED <<pollVars, verify, accept, store, neg>>

NextRefractory ==
    \/ ClientEvaluates
    \/ PluginEvaluates

SpecRefractory == InitRefractory /\ [][NextRefractory]_vars

\* ------------------------------------------------------------------ interaction cycles
\* the twitter client's handleTwitterInteractions loop and the queued trade
\* requests of one counterparty
MaxCycles == 2
MaxStarts == 3
MaxFiles == 2

IdleCycle == [pc |-> "idle", files |-> <<>>, loaded |-> 0]

InitCycles ==
    /\ PollInit
    /\ verify = NoVerify
    /\ accept = NoAccept
    /\ store = NoStore
    /\ neg = NoNeg
    /\ call = [pc |-> "ready", queue |-> {}, nextFile |-> 1, starts |-> 0,
               stored |-> 0, replies |-> 0,
               cycle |-> [k \in 1..MaxCycles |-> IdleCycle]]

\* the trade request loop of a cycle from its list of files: readFile of the
\* next file (a file another cycle has deleted makes readFile throw, which ends
\* the cycle), then handleNegotiation up to its first await
NextFile(c, k, files) ==
    IF files = <<>> \/ Head(files) \notin c.queue
    THEN [c EXCEPT !.cycle[k] = IdleCycle]
    ELSE [c EXCEPT !.cycle[k] = [pc |-> "limits", files |-> files, loaded |-> 0]]

\* onReady: the timeout fires and handleTwitterInteractions is called without
\* being awaited; a new negotiation tweet of the counterparty is saved as a
\* trade request, then the directory is read
CycleTick(k, tweeted) ==
    /\ call.pc = "ready"
    /\ call.cycle[k].pc = "idle"
    /\ \A j \in 1..(k - 1) : call.cycle[j].pc # "idle"
    /\ call.starts < MaxStarts
    /\ LET saved == tweeted /\ call.nextFile <= MaxFiles
           queue == IF saved THEN call.queue \cup {call.nextFile} ELSE call.queue
           c1 == [call EXCEPT !.starts = @ + 1, !.queue = queue,
                              !.nextFile = IF saved THEN @ + 1 ELSE @]
           files == SelectSeq([i \in 1..MaxFiles |-> i], LAMBDA f : f \in queue)
       IN call' = NextFile(c1, k, files)
    /\ UNCHANGED <<pollVars, verify, accept, store, neg>>

\* handleNegotiation: adjustOfferLimits returns, then loadNegotiationState reads
\* the stored state of the counterparty
LoadState(k) ==
    /\ call.pc = "ready"
    /\ call.cycle[k].pc = "limits"
    /\ call' = [call EXCEPT !.cycle[k].pc = "round", !.cycle[k].loaded = call.stored]
    /\ UNCHANGED <<pollVars, verify, accept, store, neg>>

\* handleNegotiation: the round replies and saves the state it derived from the
\* loaded one and returns true, the file is deleted; or it fails and returns
\* false, the file stays; the loop goes on with the next file
RoundReturn(k, ok) ==
    /\ call.pc = "ready"
    /\ call.cycle[k].pc = "round"
    /\ LET c == call.cycle[k]
           c1 == IF ok
                 THEN [call EXCEPT !.stored = c.loaded + 1, !.replies = @ + 1,
                                   !.queue = @ \ {Head(c.files)}]
                 ELSE call
       IN call' = NextFile(c1, k, Tail(c.files))
    /\ UNCHANGED <<pollVars, verify, accept, store, neg>>

NextCycles ==
    \/ \E k \in 1..MaxCycles, tweeted \in BOOLEAN : CycleTick(k, tweeted)
    \/ \E k \in 1..MaxCycles : LoadState(k)
    \/ \E k \in 1..MaxCycles, ok \in BOOLEAN : RoundReturn(k, ok)

SpecCycles == InitCycles /\ [][NextCycles]_vars

\* ------------------------------------------------------------------ properties
\* the task object pass p is awaiting on
AtIdx(p) == pass[p].loop[pass[p].idx]

\* pass p came back from its await in this step
Resumed(p) ==
    /\ ops' = ops
    /\ pass[p].pc # "idle"
    /\ pass'[p].pc # pass[p].pc \/ pass'[p].idx # pass[p].idx

InMem(e, status) == \E i \in 1..Len(mem) : mem[i][1] = e /\ heap[mem[i]].status = status

\* C1: once the exchange of a task has succeeded and the task is completed, the
\* return of the completion callback, normal or by a throw, leaves the task
\* completed
C1_CompletedDespiteCallbackFailure ==
    [][\A p \in Passes :
         (pass[p].pc = "notify" /\ Resumed(p) /\ heap[AtIdx(p)].status = "completed")
         => heap'[AtIdx(p)].status \in {"completed", "free"}]_pollVars

\* C2: over all acceptDeal attempts for one deal at most one escrow is
\* initialized on chain, and negotiation_status is initiated_escrow only after
\* an escrow was initialized
C2_NoDoubleSubmission ==
    /\ accept.escrows <= 1
    /\ accept.negotiation_status = "initiated_escrow" => accept.escrows >= 1

\* C3: the taker-side transfer is submitted only for a reference that
\* verifyEscrowSetup reported secure and funded: the escrow account is owned by
\* the program, both vaults are token accounts, the deposit is within the
\* tolerance; the call registers no polling task
C3_TransferOnlyWhenVerified ==
    /\ verify.pc \in {"transfer", "done"} /\ verify.transfer
       => /\ verify.verification.isSecure
          /\ verify.verification.isFunded
          /\ ~verify.in.rpcFails
          /\ verify.in.txFound
          /\ verify.in.escrowFound
          /\ verify.in.escrowInfo = "program"
          /\ verify.in.vaultAEntry /\ verify.in.vaultBEntry
          /\ verify.in.vaultALen = TokenAccountSize
          /\ verify.in.vaultBLen = TokenAccountSize
          /\ verify.in.offsetA < DepositTolerance
          /\ verify.in.offsetA > 0 - DepositTolerance
    /\ verify.pc = "done" /\ verify.result => verify.transfer
    /\ mem = <<>> /\ disk = <<>>

C3_Witness ==
    /\ verify.pc = "done"
    /\ verify.transfer
    /\ verify.result
    /\ verify.in.offsetA = DepositTolerance - 1

\* C4: an exchange is submitted for escrow e only by a pass that found the task
\* pending and whose checkTokenBalance for it has just returned true
C4_ExchangeOnlyAfterCheck ==
    [][\A e \in Escrows :
         log'[e].exch > log[e].exch
         => \E p \in Passes : /\ pass[p].pc = "check"
                              /\ AtIdx(p)[1] = e
                              /\ pass[p].found = "pending"
                              /\ pass'[p].pc = "exchange"
                              /\ pass'[p].chk = "met"
                              /\ log'[e].exch = log[e].exch + 1]_pollVars

C4_Witness ==
    \E p \in Passes : /\ pass[p].pc = "exchange"
                      /\ pass[p].chk = "met"
                      /\ log[AtIdx(p)[1]].exch = 1

\* C5: a pass that ends has submitted a cancellation for every task that was
\* pending in memory and request_cancel on disk when it started
C5_AdoptedCancelledInPass ==
    [][\A p \in Passes :
         (Resumed(p) /\ pass'[p].pc = "idle") => pass[p].adopted \subseteq pass[p].tried]_pollVars

\* C6: while a task is completed in memory after its exchange, the running
\* engine submits no cancellation for it and does not make it request_cancel
C6_NoCancelAfterCompleted ==
    [][\A e \in Escrows :
         (InMem(e, "completed") /\ log[e].exchOk > 0 /\ ~(\E landed \in SUBSET Escrows : Restart(landed)))
         => /\ log'[e].cancel = log[e].cancel
            /\ \A i \in 1..Len(mem') : mem'[i][1] = e => heap'[mem'[i]].status # "request_cancel"]_pollVars

\* C7: a task in request_cancel is not left with an engine that has nothing
\* more to run: no timer, no pass in flight, no file-change handler pending
C7_NoStrandedRequest ==
    \A e \in Escrows :
        InMem(e, "request_cancel")
        => \/ pollingInterval
           \/ isProcessingFileChange
           \/ \E p \in Passes : pass[p].pc # "idle"

C9_NotifiedExactlyOnce ==
    \A e \in Escrows : log[e].notified = log[e].exchOkH /\ log[e].notified <= 1

C9_Witness ==
    \E e \in Escrows : /\ log[e].notified = 1
                       /\ log[e].exch = 2
                       /\ InMem(e, "completed")

\* C10: what safeReadState returns after a crash inside safeWriteState is the
\* state before that save or the state of that save
C10_LoadAfterCrash ==
    (store.pc = "idle" /\ store.loaded # NotLoaded) => store.loaded.id \in {store.prev, store.new}

\* C11: a load whose state file does not parse returns the state of the backup
\* that it read, and returns the empty state only when the backup is absent or
\* does not parse either
C11_LoadFallsBackToBackup ==
    [][(store.loaded = NotLoaded /\ store'.loaded # NotLoaded)
       => IF store.pc = "down"
          THEN \/ Complete(store.main) /\ store'.loaded = store.main
               \/ /\ ~Complete(store.main) /\ ~Complete(store.backup)
                  /\ store'.loaded = StateFile(EmptyState)
          ELSE store.restoring /\ store'.loaded = store.temp]_store

\* C15: evaluateProposedDeal rejects with both amounts 0 when our amount is over
\* the cap or an amount is 0, raises an error when the prices are unavailable,
\* and otherwise accepts exactly when their value is at least 95% of ours,
\* returning the amounts unchanged
C15_EvaluateProposedDeal ==
    neg.pc = "evaluated"
    => IF neg.ourAmount > neg.cap \/ neg.ourAmount = 0 \/ neg.theirAmount = 0
       THEN /\ neg.out.kind = "result"
            /\ ~neg.out.shouldAccept
            /\ neg.out.ourTokenAmount = 0
            /\ neg.out.counterpartyTokenAmount = 0
       ELSE IF ~neg.prices.ok
       THEN neg.out.kind = "error"
       ELSE /\ neg.out.kind = "result"
            /\ neg.out.shouldAccept
               <=> (neg.theirAmount * neg.prices.their * 100
                    >= neg.ourAmount * neg.prices.our * 95)
            /\ neg.out.ourTokenAmount = neg.ourAmount
            /\ neg.out.counterpartyTokenAmount = neg.theirAmount

\* the scenario of 500 of ours for 900 of theirs at $2 and $1: rejected, amounts kept
C15_Witness ==
    /\ neg.pc = "evaluated"
    /\ neg.ourAmount = 500 /\ neg.theirAmount = 900
    /\ neg.prices = Prices(2, 1)
    /\ neg.cap = 500
    /\ neg.out.kind = "result"
    /\ ~neg.out.shouldAccept
    /\ neg.out.ourTokenAmount = 500

\* a message of the counterparty, or the completion of an escrow, was handled
\* in this step
Handled ==
    /\ neg.pc = "idle"
    /\ neg'.pc = "idle"
    /\ neg'.rounds # neg.rounds \/ neg'.tasks < neg.tasks

\* a message of the counterparty was handled in this step
RoundHandled == Handled /\ neg'.rounds # neg.rounds

\* the state the handler of this step loaded
Loaded == LoadNegotiationState(neg.memory)

\* C12: whenever a round computes an offer, the amount is at most the effective
\* max_offer_amount that the round read from the balance
C12_OfferWithinCap ==
    (neg.pc = "idle" /\ neg.last.offered # Undefined) => neg.last.offered <= neg.last.cap

C14_FailedExactlyAtMaxNegotiations ==
    [][(RoundHandled /\ neg.memory.negotiation_status = "pending")
       => LET unaccepted == /\ neg'.last.conv = neg.memory.conversation_id
                            /\ neg'.last.kind \in {"reject", "offer"}
                            /\ neg'.last.step # "accept"
              declined == unaccepted /\ neg'.last.ret = "ok"
              exhausted == neg.memory.negotiation_count = neg.memory.max_negotiations
          IN  /\ (declined /\ exhausted) => neg'.memory.negotiation_status = "failed"
              /\ (declined /\ ~exhausted)
                 => /\ neg'.memory.negotiation_status = "pending"
                    /\ neg'.last.offered # Undefined
                    /\ neg'.last.replies > 0
              /\ neg'.memory.negotiation_status = "failed"
                 => /\ exhausted
                    /\ neg'.last.conv = neg.memory.conversation_id
                    /\ neg'.last.kind \in {"reject", "alliance", "offer"}
                    /\ neg'.last.step = "end"]_vars

\* C16: a round in which a step returns false or raises an error leaves the
\* stored negotiation state of the counterparty as it was before the round
C16_FailedRoundKeepsState ==
    [][(RoundHandled /\ neg'.last.ret \in {"false", "throw"})
       => neg'.memory = neg.memory]_vars

\* the stored state is failed or completed
Finished == neg.memory.negotiation_status \in {"failed", "completed"}

\* a state is stored, its last_interaction is set and the refractory period
\* since then is still running
WithinRefractory ==
    neg.memory # NoMemory /\ neg.memory.last_interaction /\ neg.clock = "recent"

C18_FreshStartAfterRefractory ==
    [][(/\ RoundHandled
        /\ neg'.last.kind \in {"offer", "alliance"}
        /\ neg.memory # NoMemory
        /\ neg.memory.last_interaction
        /\ neg.clock = "elapsed"
        /\ Finished \/ neg'.last.conv # neg.memory.conversation_id
        /\ neg'.last.ret = "ok")
       => /\ neg'.last.reset
          /\ neg'.last.step \in {"offer", "accept"}
          /\ neg'.memory.conversation_id = neg'.last.conv
          /\ neg'.memory.negotiation_status
                \in {"pending", "waiting_for_escrow", "initiated_escrow"}]_vars

\* the stored status, not_started when nothing is stored
StatusOf(memory) ==
    IF memory = NoMemory THEN "not_started" ELSE memory.negotiation_status

StatusEdges ==
    {<<"not_started", "pending">>, <<"pending", "pending">>,
     <<"pending", "waiting_for_escrow">>, <<"pending", "initiated_escrow">>,
     <<"pending", "failed">>, <<"pending", "completed">>,
     <<"waiting_for_escrow", "completed">>, <<"initiated_escrow", "completed">>}

\* C19: every change of the stored status is one of the edges of the status
\* graph or a reset to not_started; a round that resets the state changes the
\* status from not_started
C19_StatusFollowsEdges ==
    [][Handled
       => LET from == IF neg'.last.reset THEN "not_started" ELSE StatusOf(neg.memory)
              to == StatusOf(neg'.memory)
          IN  \/ from = to
              \/ to = "not_started"
              \/ <<from, to>> \in StatusEdges]_vars

\* C20: in a negotiation that the counterparty started with an offer, a round
\* that accepts the deal sets up no escrow and registers no polling task, and
\* stores the status waiting_for_escrow
C20_NoEscrowForCounterpartyInitiated ==
    (neg.pc = "idle" /\ neg.origin = "counterparty" /\ neg.last.step = "accept")
    => /\ neg.last.escrows = 0
       /\ neg.last.saved => neg.memory.negotiation_status = "waiting_for_escrow"

\* C21: whenever the registry holds a pending or request_cancel task and no
\* poll pass is in flight, the repeating timer is running
C21_TimerRunsWhileTasksActive ==
    (/\ \E i \in 1..Len(mem) : heap[mem[i]].status \in Active
     /\ \A p \in Passes : pass[p].pc = "idle")
    => pollingInterval

\* C22: at most one poll pass is executing at any time, a timer tick never
\* starts a pass while an earlier pass is suspended on an on-chain call
C22_OnePassAtATime ==
    \A p, q \in Passes : (pass[p].pc # "idle" /\ pass[q].pc # "idle") => p = q

\* the parts of C23 that do not depend on which error leaves the loop: at most
\* MAX_RETRIES attempts, an attempt is repeated only after an error whose message
\* indicates the exceeded block height, any other error of an attempt is thrown
\* at once and unchanged, and no polling task is registered when the call throws
SetupRetryDiscipline ==
    /\ call.attempts <= MAX_RETRIES
    /\ call.sent <= call.attempts
    /\ call.attempts <= 1 + Cardinality({k \in 1..Len(call.errors) : call.errors[k].expired})
    /\ \A k \in 1..Len(call.errors) :
          ~call.errors[k].expired
          => /\ k = Len(call.errors)
             /\ call.pc = "done" /\ call.out = "thrown" /\ call.thrown = call.errors[k]
    /\ call.out = "thrown" => call.tasks = 0
    /\ call.tasks > 0 => (call.out = "returned" /\ call.tasks = 1)

ThirdExpiryFailure ==
    /\ Len(call.errors) = MAX_RETRIES
    /\ call.errors[MAX_RETRIES].expired
    /\ call.pc = "done"

\* C23: setupEscrow makes at most 3 attempts, retries only after an expiry
\* failure, throws any other error at once, registers no polling task when it
\* throws, and after the third expiry failure throws an error: the third expiry
\* error, or the error of the blockhash refresh when that refresh fails
C23_SetupEscrowRetries ==
    /\ SetupRetryDiscipline
    /\ ThirdExpiryFailure
       => /\ call.out = "thrown"
          /\ call.thrown = call.errors[MAX_RETRIES] \/ call.thrown.at = "refresh"

\* three attempts failed by expiry, the third error was thrown, no task exists
C23_Witness ==
    /\ ThirdExpiryFailure
    /\ call.attempts = MAX_RETRIES
    /\ call.out = "thrown"
    /\ call.thrown = call.errors[MAX_RETRIES]
    /\ call.tasks = 0

\* C23 as stated: after the third expiry failure the last error of the loop is
\* the error thrown
C23_LastErrorThrown ==
    /\ SetupRetryDiscipline
    /\ ThirdExpiryFailure
       => /\ call.out = "thrown"
          /\ call.thrown = call.errors[MAX_RETRIES]

\* C24: verifyAndCompleteEscrow never throws; it returns false for every
\* verification failure, RPC error and transfer error, and true only after the
\* transfer to the vault was submitted and did not fail
C24_VerifyAndCompleteNeverThrows ==
    /\ ~verify.thrown
    /\ verify.pc = "done"
       => /\ verify.result <=> (verify.transfer /\ ~verify.in.transferFails)
          /\ (\/ verify.in.rpcFails
              \/ ~verify.verification.isSecure
              \/ ~verify.verification.isFunded
              \/ verify.in.mintFails) => ~verify.result

\* a verified escrow with an open remainder whose mint lookup threw: the call
\* has returned false
C24_Witness ==
    /\ verify.pc = "done"
    /\ verify.verification.isSecure
    /\ verify.verification.isFunded
    /\ verify.verification.remainingAmount > 0
    /\ verify.in.mintFails
    /\ ~verify.result
    /\ ~verify.transfer

\* raw / 10^decimals >= expected * hundredths / 100, in integers
AtLeastShare(raw, decimals, expected, hundredths) ==
    IF decimals >= 2 THEN raw >= expected * hundredths * Pow10(decimals - 2)
                     ELSE raw * Pow10(2 - decimals) >= expected * hundredths

\* C25: checkTokenBalance reports the threshold as met exactly when the vault
\* account exists and raw balance / 10^decimals >= expectedAmount * threshold; a
\* missing account is not met; expectedAmount 1000, decimals 6, threshold 0.95,
\* raw balance 960000000 is met and the exchange is attempted
C25_ThresholdMetExactly ==
    call.pc \in {"checked", "done"}
    => /\ call.in.answer = "parsed"
          => (call.out.met <=> AtLeastShare(call.in.raw, call.in.decimals,
                                            call.in.expectedAmount, call.in.threshold))
       /\ call.in.answer = "missing" => ~call.out.met
       /\ call.pc = "done" => (call.exchange <=> call.out.met)
       /\ (/\ call.in.answer = "parsed"
           /\ call.in.expectedAmount = 1000 /\ call.in.decimals = 6
           /\ call.in.threshold = 95 /\ call.in.raw = 960000000)
          => call.out.met

\* the vault holds exactly the threshold share and the exchange was attempted
C25_Witness ==
    /\ call.pc = "done"
    /\ call.in.answer = "parsed"
    /\ call.in.expectedAmount = 1000 /\ call.in.decimals = 6 /\ call.in.threshold = 95
    /\ call.in.raw = 950000000
    /\ call.out.met
    /\ call.exchange

C27_NothingHappensAtZeroCap ==
    [][(RoundHandled /\ neg'.last.cap = 0)
       => /\ neg'.memory = neg.memory
          /\ neg'.last.replies = 0
          /\ neg'.last.escrows = 0
          /\ neg'.tasks = neg.tasks
          /\ neg'.last.step = "none"]_vars

\* C28: the first offer of a negotiation, made from status not_started after an
\* alliance request or after a token proposal that was not accepted, has an
\* amount of at least floor(cap * min_offer_percentage / 100) and at most
\* cap * max_offer_percentage / 100
C28_FirstOfferWithinPercentages ==
    [][(/\ RoundHandled
        /\ Loaded.negotiation_status = "not_started" \/ neg'.last.reset
        /\ neg'.last.step = "offer"
        /\ neg'.last.ret = "ok")
       => /\ neg'.last.offered >= (neg'.last.cap * MinOfferPercentage) \div 100
          /\ neg'.last.offered * 100 <= neg'.last.cap * MaxOfferPercentage]_vars

\* C29: a further offer in a pending negotiation is never lower than the offer
\* stored by the round before
C29_OffersNeverDecrease ==
    [][(/\ RoundHandled
        /\ neg.memory.negotiation_status = "pending"
        /\ neg'.last.conv = neg.memory.conversation_id
        /\ ~neg'.last.reset
        /\ neg'.last.step = "offer"
        /\ neg'.last.saved)
       => neg'.memory.amount >= neg.memory.amount]_vars

\* pass p is at the balance check of a task and goes on in this step with an
\* error newly recorded on the task: the check has thrown
CheckThrows(p) ==
    /\ pass[p].pc = "check"
    /\ pass'[p].pc # "check" \/ pass'[p].idx # pass[p].idx
    /\ ops' = ops
    /\ ~heap[pass[p].loop[pass[p].idx]].error
    /\ heap'[pass[p].loop[pass[p].idx]].error

\* C30: when the balance check of a task throws, the error is recorded on the
\* task, its status is left as it is, and no exchange is started for it; a task
\* that is pending is kept for the next pass: it is in remainingTasks, and a
\* pass that ends with a task in remainingTasks leaves the task in the registry
\* and the timer as it was
C30_ThrowingCheckKeepsTaskPending ==
    [][/\ \A p \in Passes :
         CheckThrows(p)
         => LET o == pass[p].loop[pass[p].idx]
            IN /\ heap'[o].error
               /\ heap'[o].status = heap[o].status
               /\ log'[o[1]].exch = log[o[1]].exch
               /\ pass'[p].pc # "exchange"
               /\ heap[o].status = "pending"
                  => IF pass'[p].pc = "idle"
                     THEN /\ pollingInterval' = pollingInterval
                          /\ \E i \in 1..Len(mem') : mem'[i] = o
                     ELSE \E i \in 1..Len(pass'[p].remaining) :
                             pass'[p].remaining[i] = o
       /\ \A p \in Passes :
            (/\ pass[p].pc # "idle" /\ pass'[p].pc = "idle"
             /\ pass[p].remaining # <<>> /\ ops' = ops)
            => /\ pollingInterval' = pollingInterval
               /\ \A k \in 1..Len(pass[p].remaining) :
                     \E i \in 1..Len(mem') : mem'[i] = pass[p].remaining[k]]_vars

\* the check of the first of two tasks threw: the task is pending with its error
\* recorded and kept for the next pass, nothing was exchanged, the timer runs
\* and the pass has gone on to the second task
C30_Witness ==
    \E p \in Passes :
        /\ pass[p].pc = "check"
        /\ pass[p].idx = 2
        /\ pass[p].remaining = <<pass[p].loop[1]>>
        /\ heap[pass[p].loop[1]].status = "pending"
        /\ heap[pass[p].loop[1]].error
        /\ log[pass[p].loop[1][1]].exch = 0
        /\ log[pass[p].loop[1][1]].cancel = 0
        /\ pollingInterval

\* C31: a message is too recent if and only if less than refractory_period_days
\* * 24 hours have elapsed since last_interaction, for a fractional number of
\* days too, and the client and the plugin give the same answer
C31_FractionalRefractoryHonoured ==
    call.pc = "both"
    => /\ call.client <=> (call.elapsed < 12 * call.halfDays)
       /\ call.plugin <=> (call.elapsed < 12 * call.halfDays)
       /\ call.client <=> call.plugin

\* C32: no two handleNegotiation executions for the counterparty overlap, and
\* a round that saves has loaded the state that is stored when it saves
C32_OneRoundAtATime ==
    [][call'.pc = "ready"
       => /\ \A j, k \in 1..MaxCycles :
                (call'.cycle[j].pc # "idle" /\ call'.cycle[k].pc # "idle") => j = k
          /\ \A k \in 1..MaxCycles :
                (call.cycle[k].pc = "round" /\ call'.replies # call.replies
                 /\ call'.cycle[k] # call.cycle[k])
                => call.cycle[k].loaded = call.stored]_vars

\* C33: a handleFileChange that runs while a poll pass is in flight leaves the
\* contents of this.state.tasks as they were
C33_HandlerWaitsForPass ==
    [][(/\ isProcessingFileChange
        /\ ~isProcessingFileChange'
        /\ ops' = ops
        /\ \E p \in Passes : pass[p].pc # "idle")
       => Snapshot(heap', mem') = Snapshot(heap, mem)]_vars

\* C34: attempt number a of setupEscrow is simulated and submitted with the
\* blockhash fetched after the expiry failure of attempt a - 1 (the a-th
\* blockhash fetched), so no two attempts use the same blockhash
C34_FreshBlockhashPerAttempt ==
    call.pc \in {"simulate", "send", "fetch", "refresh", "done"}
    => /\ \A a \in 1..Len(call.simulated) : call.simulated[a] = a
       /\ \A a \in 1..Len(call.submitted) : call.submitted[a] = call.simulated[Len(call.simulated)]
       /\ \A a, b \in 1..Len(call.simulated) : a # b => call.simulated[a] # call.simulated[b]

\* the exchange of escrow e is submitted for the second time in this step
SecondExchange(e) == log'[e].exch > log[e].exch /\ log[e].exch > 0

\* a task of escrow e, completed by its exchange, is failed after this step
CompletedTurnsFailed(e) ==
    /\ log[e].exchOk > 0
    /\ \E i \in 1..Len(mem) :
          /\ mem[i][1] = e
          /\ heap[mem[i]].status = "completed"
          /\ heap'[mem[i]].status = "failed"

\* C35: over all poll passes the exchange of a task is submitted at most once,
\* and a task completed by its exchange is not made failed afterwards
C35_ExchangeAtMostOnce ==
    [][\A e \in Escrows : ~SecondExchange(e) /\ ~CompletedTurnsFailed(e)]_vars

\* escrow e has a task in this.state.tasks (m, h) / in the file (d)
Listed(h, m, e) == \E i \in 1..Len(m) : m[i][1] = e
Persisted(d, e) == \E i \in 1..Len(d) : d[i].escrow = e

\* C36: a task that is pending in memory and present in the file is in
\* memory and in the file after every step of the engine
C36_PendingTaskStaysRegistered ==
    [][\A e \in Escrows :
         (InMem(e, "pending") /\ Persisted(disk, e))
         => (Listed(heap', mem', e) /\ Persisted(disk', e))]_vars

\* C37: after every step of the engine, state saves included, a watcher on the
\* state file is active, and an external edit of the file starts (or finds
\* running) a handleFileChange
C37_WatcherActiveAfterSave ==
    [][/\ fileWatcher' = "active"
       /\ (\E e \in Escrows : OperatorEdit(e)) => isProcessingFileChange']_vars

\* C38: when setupEscrow has initialized an escrow on chain and addPollingTask
\* has run for it, a pending task of that escrow is in this.state.tasks and in
\* the file
C38_InitializedEscrowHasTask ==
    [][\A e \in Escrows :
         (chain[e] = "none" /\ chain'[e] = "open")
         => /\ \E i \in 1..Len(mem') : mem'[i][1] = e /\ heap'[mem'[i]].status = "pending"
            /\ \E i \in 1..Len(disk') : disk'[i].escrow = e /\ disk'[i].status = "pending"]_vars

\* C39: in every stored negotiation state that has both fields,
\* negotiation_count is at most max_negotiations
C39_CountWithinMaxNegotiations ==
    (neg.memory.negotiation_count # Undefined /\ neg.memory.max_negotiations # Undefined)
    => neg.memory.negotiation_count <= neg.memory.max_negotiations

\* C40: a round of handleNegotiation on a transfer announcement returns true
\* (its trade request is deleted) only when initiateTransfer verified the
\* escrow and stored the status completed, and a round makes the status
\* completed only through such an initiateTransfer
C40_TransferRequestKeptUntilVerified ==
    [][(RoundHandled /\ neg'.last.handler = "handleNegotiation")
       => /\ (neg'.last.step = "transfer" /\ neg'.last.ret = "ok")
             => /\ neg'.last.saved
                /\ neg'.memory.negotiation_status = "completed"
          /\ (/\ neg'.memory.negotiation_status = "completed"
              /\ neg.memory.negotiation_status # "completed")
             => (neg'.last.step = "transfer" /\ neg'.last.kind = "transfer" /\ neg'.last.saved)]_vars

====
